---- MODULE Spec2Model ----
(***************************************************************************)
(* AASHTO 1993 flexible pavement design (report-flexible-pavment.py):      *)
(* the solver for the required Structural Number, the aggregation of the   *)
(* provided Structural Number, the design check, and the run of main that  *)
(* chains them.  After it come the three smaller tools of the repository:  *)
(* the green line of the K nomograph (Germini-K-AASHTO.py and              *)
(* Claude-K-AASHTO.py), the markers of Figure 3.3 (AASHTO-K-comp.py) and   *)
(* the layer diagram (pavement-structure.py): its drawing function and the *)
(* session of its page.  Each tool has its own specification; the          *)
(* variables of the other tools stay idle in it.                           *)
(*                                                                         *)
(* Numbers.  The program computes in IEEE doubles; the model computes in   *)
(* integers of fixed scale (TLC's integers are 32 bits wide, so every      *)
(* product is split to stay below 2^31):                                   *)
(*   SN values                  in 10^-6  (micro)                          *)
(*   residuals and logarithms   in 10^-8                                   *)
(*   W18, Mr                    as integers                                *)
(*   Zr in 10^-3, So in 10^-2, P0, Pt, delta_psi in 10^-1                  *)
(*   thickness_cm in 10^-1 cm, layer_coeff in 10^-2, drainage_coeff in     *)
(*   10^-3                                                                 *)
(* np.log10 and ** are computed, not tabulated: Log10E8 by repeated        *)
(* squaring of the binary mantissa, Exp10 by the exponential series.       *)
(* Against the double computation the residual differs by about 10^-6.     *)
(* The drawing function of the layer diagram is computed in exact IEEE     *)
(* doubles, see Dbl.                                                       *)
(***************************************************************************)
EXTENDS Integers, Sequences, FiniteSets, TLC

VARIABLES
    pc,             \* position of the run of main
    W18, Zr, So, delta_psi, Mr,   \* the design inputs handed to the solver
    layers,         \* the layer list handed to calculate_sn_provided
    sn_req_result,  \* dict returned by calculate_sn_required (None before)
    sn_prov_result, \* dict returned by calculate_sn_provided (None before)
    design_check,   \* dict returned by check_design (None before)
    exc,            \* exception that left main uncaught ("none" if none)
    brentq_out,     \* how the call of brentq ended (None before the call)
    fcalls,         \* evaluations of aashto_1993_equation so far
    solves,         \* calls of brentq so far
    form,           \* the entries of the input form of main (None when the
                    \* inputs are handed over directly)
    arg_sn_required,  \* main's sn_required, the argument of check_design
    arg_sn_provided,  \* main's sn_provided, the argument of check_design
    SN_point,       \* the SN of a call of aashto_1993_equation on its own
    residual,       \* what that call returned (None before)
    \* Germini-K-AASHTO.py and Claude-K-AASHTO.py: the sliders of main
    green_x1, green_y1, green_x2, green_y2, stop_y_1,
    constrained_x,  \* the x of the black dot (None before it is computed)
    \* AASHTO-K-comp.py: the three inputs and the markers of the user path
    D_SB, E_SB, M_R,
    points_x, points_y,
    \* pavement-structure.py
    session_state,  \* st.session_state: key -> value, absent keys left out
    uploaded_json,  \* the file in the uploader (None when empty)
    export_data,    \* the JSON offered for download by the last run
    rerun,          \* TRUE when the last run ended in st.rerun()
    chart_layers,   \* the list called layers in pavement-structure.py
    rects,          \* the rectangles draw_pavement_structure added
    downloaded,     \* the file the user saved with the JSON download button
    event           \* what the user did last, and how many times they acted

\* the variables of report-flexible-pavment.py, pc and exc apart
designVars == <<W18, Zr, So, delta_psi, Mr, layers, sn_req_result,
                sn_prov_result, design_check, brentq_out, fcalls, solves,
                form, arg_sn_required, arg_sn_provided, SN_point, residual>>

\* the variables of the other tools
nomographVars == <<green_x1, green_y1, green_x2, green_y2, stop_y_1,
                   constrained_x>>
figureVars == <<D_SB, E_SB, M_R, points_x, points_y>>
diagramVars == <<session_state, uploaded_json, export_data, rerun,
                 chart_layers, rects, downloaded, event>>
toolVars == <<nomographVars, figureVars, diagramVars>>

vars == <<pc, exc, designVars, toolVars>>

(***************************************************************************)
(* Python's None and a present value.                                      *)
(***************************************************************************)
None == <<>>
Some(x) == <<x>>
Val(o) == o[1]

\* the nomograph tools before a run
NomographIdle ==
    /\ green_x1 = None /\ green_y1 = None
    /\ green_x2 = None /\ green_y2 = None
    /\ stop_y_1 = None /\ constrained_x = None

\* the Figure 3.3 tool before a run
FigureIdle ==
    /\ D_SB = None /\ E_SB = None /\ M_R = None
    /\ points_x = None /\ points_y = None

\* the layer-diagram tool before a session
DiagramIdle ==
    /\ session_state = None /\ uploaded_json = None
    /\ export_data = None /\ rerun = FALSE
    /\ chart_layers = None /\ rects = None
    /\ downloaded = None /\ event = None

\* the other tools before they are started
ToolsIdle == NomographIdle /\ FigureIdle /\ DiagramIdle

(***************************************************************************)
(* Scales.                                                                 *)
(***************************************************************************)
E6 == 10^6
E8 == 10^8
P15 == 2^15
P27 == 2^27
P30 == 2^30

Abs(x) == IF x < 0 THEN -x ELSE x

(***************************************************************************)
(* The arithmetic below is written as functions of values: a function's    *)
(* arguments are computed once, where it is applied.                       *)
(*                                                                         *)
(* floor(a*b/c) for a, b >= 0 and 0 < c < 2^31/3, without forming a*b.     *)
(* MulDivQR returns <<q, r>> with a*b = q*c + r; MulDivStep gets there     *)
(* from h, the same for b \div 2.                                          *)
(***************************************************************************)
MulDivStep[a \in Nat, b \in Nat, c \in Nat, h \in Nat \X Nat] ==
    LET s == 2 * h[2] + (b % 2) * (a % c)
    IN  <<2 * h[1] + (b % 2) * (a \div c) + (s \div c), s % c>>

MulDivQR[a \in Nat, b \in Nat, c \in Nat] ==
    IF b = 0 THEN <<0, 0>>
    ELSE MulDivStep[a, b, c, MulDivQR[a, b \div 2, c]]

MulDiv[a \in Nat, b \in Nat, c \in Nat] == MulDivQR[a, b, c][1]

\* the same for a of either sign, rounding toward zero
SMulDiv[a \in Int, b \in Nat, c \in Nat] ==
    IF a >= 0 THEN MulDivQR[a, b, c][1] ELSE -MulDivQR[-a, b, c][1]

\* a*b/c toward zero for a small factor b/c (b*c < 2^31), a of either sign
Times[a \in Int, b \in Nat, c \in Nat] ==
    LET m == Abs(a)
        v == (m \div c) * b + (((m % c) * b) \div c)
    IN  IF a >= 0 THEN v ELSE -v

\* floor(a*b / u^2) for 0 <= a, b < u^2 with u^2 < 2^31, by halves of a and b
MulHalves[a \in Nat, b \in Nat, u \in Nat] ==
    LET ah == a \div u
        al == a % u
        bh == b \div u
        bl == b % u
    IN  ah * bh + ((ah * bl + al * bh + ((al * bl) \div u)) \div u)

(***************************************************************************)
(* round(x, 3) and friends: n/d rounded to the nearest integer, a tie to   *)
(* the even neighbour (Python's round), d > 0, n of either sign.           *)
(***************************************************************************)
RoundHalfEven[n \in Int, d \in Nat] ==
    LET q == n \div d
        r == n % d
    IN  IF 2 * r < d THEN q
        ELSE IF 2 * r > d THEN q + 1
        ELSE IF q % 2 = 0 THEN q ELSE q + 1

(***************************************************************************)
(* np.log10 of a positive integer, in 10^-8.                               *)
(* n = m * 2^e with m in [1, 2) held in 29 fraction bits; each squaring of *)
(* m yields the next bit of log2(m); 24 bits are taken.                    *)
(***************************************************************************)
FloorLog2[n \in Nat] == IF n < 2 THEN 0 ELSE 1 + FloorLog2[n \div 2]

\* m*m / 2^29 for m in [2^29, 2^30)
Sq29[m \in Nat] ==
    LET h == m \div P15
        l == m % P15
    IN  2 * h * h + ((2 * h * l + ((l * l) \div P15)) \div (2^14))

\* the next k bits of log2(m), given m2 = m*m / 2^29 in [2^29, 2^31)
Log2Frac[m2 \in Nat, k \in Nat] ==
    IF k = 0 THEN 0
    ELSE IF m2 >= P30 THEN 2^(k - 1) + Log2Frac[Sq29[m2 \div 2], k - 1]
    ELSE Log2Frac[Sq29[m2], k - 1]

\* log10(n) for n with FloorLog2[n] = e <= 29; log10(2) = 0.30102999566
Log10Of[n \in Nat, e \in Nat] ==
    e * 30102999 + ((e * 566) \div 1000)
        + MulHalves[Log2Frac[Sq29[n * 2^(29 - e)], 24], 30103000, 2^12]

Log10E8[n \in Nat] == Log10Of[n, FloorLog2[n]]

(***************************************************************************)
(* 10^(y / 10^8) as <<r, k>>: the value is (r / 2^27) * 10^k with r in     *)
(* [2^27, 10 * 2^27).  The fraction of y goes through e^t, t = f * ln 10.  *)
(***************************************************************************)
\* a*b / 2^27 for a, b < 2^29
MulQ27[a \in Nat, b \in Nat] ==
    LET ah == a \div P15
        al == a % P15
        bh == b \div P15
        bl == b % P15
    IN  8 * ah * bh + ((ah * bl + al * bh + ((al * bl) \div P15)) \div (2^12))

\* the terms of e^t from the n-th on, nt being the n-th, all * 2^27
ExpSeries[t \in Nat, nt \in Nat, n \in Nat] ==
    IF nt = 0 THEN 0
    ELSE nt + ExpSeries[t, MulQ27[nt, t] \div (n + 1), n + 1]

\* e^t * 2^27 for t * 2^27 given
ExpQ27[t \in Nat] == P27 + ExpSeries[t, t, 1]

\* ln(10) * 2^27 / 10^8 = 3.09047739...
Exp10[y \in Int] ==
    <<ExpQ27[3 * (y % E8) + MulHalves[y % E8, 9047739, 10^4]], y \div E8>>

(***************************************************************************)
(* Doubles that are not finite.  np.log10(0) is -inf and np.log10 of a     *)
(* negative number is nan (numpy warns and goes on).                       *)
(***************************************************************************)
Fin(v) == [cls |-> "fin", v |-> v]
PosInf == [cls |-> "pinf", v |-> 0]
NegInf == [cls |-> "ninf", v |-> 0]
NaN == [cls |-> "nan", v |-> 0]
Double == [cls : {"fin", "pinf", "ninf", "nan"}, v : Int]

\* np.log10(p / q) for an integer p of either sign and q > 0
np_log10[p \in Int, q \in Nat] ==
    IF p > 0 THEN Fin(Log10E8[p] - Log10E8[q])
    ELSE IF p = 0 THEN NegInf
    ELSE NaN

\* x + y
ExtAdd[x \in Double, y \in Double] ==
    IF x.cls = "nan" \/ y.cls = "nan" THEN NaN
    ELSE IF x.cls = "fin" /\ y.cls = "fin" THEN Fin(x.v + y.v)
    ELSE IF x.cls = "fin" THEN y
    ELSE IF y.cls = "fin" THEN x
    ELSE IF x.cls = y.cls THEN x
    ELSE NaN

\* -x
ExtNeg[x \in Double] ==
    IF x.cls = "pinf" THEN NegInf
    ELSE IF x.cls = "ninf" THEN PosInf
    ELSE IF x.cls = "nan" THEN NaN
    ELSE Fin(-x.v)

\* x / (d[1] / d[2]) for a finite quotient d[1] / d[2] > 0
ExtDiv[x \in Double, d \in Nat \X Nat] ==
    IF x.cls = "fin" THEN Fin(SMulDiv[x.v, d[2], d[1]]) ELSE x

\* 2.32 * x - 8.07
Term4[x \in Double] ==
    IF x.cls = "fin" THEN Fin(Times[x.v, 232, 100] - 807 * E6) ELSE x

IsNaN(x) == x.cls = "nan"
IsZero(x) == x.cls = "fin" /\ x.v = 0
IsPositive(x) == x.cls = "pinf" \/ (x.cls = "fin" /\ x.v > 0)
IsNegative(x) == x.cls = "ninf" \/ (x.cls = "fin" /\ x.v < 0)

(***************************************************************************)
(* aashto_1993_equation: the residual right_side - log10(W18), in 10^-8.   *)
(* SN in micro, with SN + 1 > 0.                                           *)
(***************************************************************************)
\* 0.4 + p, p = (r / 2^27) * 10^k, as <<value, scale>>
DenominatorOf[r \in Nat, k \in Int] ==
    IF k < -7 THEN <<4 * 10^6, 10^7>>
    ELSE IF k <= 0 THEN <<4 * 10^6 + MulDiv[r, 10^(7 + k), P27], 10^7>>
    ELSE <<4 * 10^5 + MulDiv[r, 10^(6 + k), P27], 10^6>>

\* p = 1094 / (SN + 1)^5.19, given L = log10(SN + 1)
Power519[L \in Int] == Exp10[Log10E8[1094] - Times[L, 519, 100]]

\* denominator = 0.4 + 1094 / (SN + 1)^5.19, given L = log10(SN + 1);
\* <<value, scale>>: value / scale is the denominator
Denominator[L \in Int] == DenominatorOf[Power519[L][1], Power519[L][2]]

\* the residual, given L = log10(SN + 1)
Residual[L \in Int, W18_ \in Int, Zr_ \in Int, So_ \in Int, delta_psi_ \in Int, Mr_ \in Int] ==
    LET log_W18 == np_log10[W18_, 1]
        term1 == Zr_ * So_ * 1000
        term2 == Times[L, 936, 100] - 20 * E6
        numerator == np_log10[delta_psi_, 27]
        denominator == Denominator[L]
        term3 == ExtDiv[numerator, denominator]
        term4 == Term4[np_log10[Mr_, 1]]
        right_side == ExtAdd[ExtAdd[ExtAdd[Fin(term1), Fin(term2)], term3], term4]
    IN  ExtAdd[right_side, ExtNeg[log_W18]]

\* aashto_1993_equation with the difference taken the other way round,
\* log10(W18) - right_side
aashto_1993_equationReversed(SN, W18_, Zr_, So_, delta_psi_, Mr_) ==
    ExtNeg[Residual[Log10E8[SN + E6] - 6 * E8, W18_, Zr_, So_, delta_psi_, Mr_]]

aashto_1993_equation(SN, W18_, Zr_, So_, delta_psi_, Mr_) ==
    Residual[Log10E8[SN + E6] - 6 * E8, W18_, Zr_, So_, delta_psi_, Mr_]

(***************************************************************************)
(* MATERIALS: layer_coeff and drainage_range of each material.             *)
(***************************************************************************)
AC == "Asphalt Concrete (AC)"
CAB == "Crushed Aggregate Base"
CTB == "Cement Treated Base (CTB)"
GSB == "Granular Subbase"
ISG == "Improved Subgrade"
LTS == "Lime Treated Subgrade"
EAM == "Emulsified Asphalt Mix (EAM)"

MATERIALS ==
    (AC  :> [layer_coeff |-> 44, drainage_range |-> <<1000, 1000>>]) @@
    (CAB :> [layer_coeff |-> 14, drainage_range |-> <<800, 1250>>]) @@
    (CTB :> [layer_coeff |-> 23, drainage_range |-> <<800, 1250>>]) @@
    (GSB :> [layer_coeff |-> 11, drainage_range |-> <<800, 1250>>]) @@
    (ISG :> [layer_coeff |-> 8, drainage_range |-> <<800, 1250>>]) @@
    (LTS :> [layer_coeff |-> 10, drainage_range |-> <<800, 1250>>]) @@
    (EAM :> [layer_coeff |-> 30, drainage_range |-> <<1000, 1000>>])

(***************************************************************************)
(* RELIABILITY_ZR: reliability in 10^-1 percent -> Zr in 10^-3.            *)
(***************************************************************************)
RELIABILITY_ZR ==
    (500 :> 0) @@ (600 :> -253) @@ (700 :> -524) @@ (750 :> -674) @@
    (800 :> -841) @@ (850 :> -1037) @@ (900 :> -1282) @@ (910 :> -1340) @@
    (920 :> -1405) @@ (930 :> -1476) @@ (940 :> -1555) @@ (950 :> -1645) @@
    (960 :> -1751) @@ (970 :> -1881) @@ (980 :> -2054) @@ (990 :> -2327) @@
    (999 :> -3090)

(***************************************************************************)
(* brentq(f, 0.1, 20.0, xtol=1e-6, maxiter=100), f the residual as a       *)
(* function of SN alone.  scipy is not part of the repository; the model   *)
(* keeps its contract: nan from f and equal signs at the two ends raise    *)
(* ValueError, an end where f is 0 is returned at once, the loop keeps a   *)
(* bracket with a sign change and returns its better end once the bracket  *)
(* is no wider than xtol (+ rtol*|x|, about 10^-14), and RuntimeError is   *)
(* raised when maxiter iterations have not got there.  The step inside the *)
(* bracket is bisection, the step Brent's method falls back on.            *)
(***************************************************************************)
xtol == 1
maxiter == 100
BracketLo == 10^5
BracketHi == 2 * 10^7

\* the arguments the closure f captures
Params == [W18 : Int, Zr : Int, So : Int, delta_psi : Int, Mr : Int]

\* the closure f of calculate_sn_required; P holds the captured arguments
f(SN, P) == aashto_1993_equation(SN, P.W18, P.Zr, P.So, P.delta_psi, P.Mr)

\* SameSign that knows two positive values only
SameSignPositiveOnly(fa, fb) == IsPositive(fa) /\ IsPositive(fb)

SameSign(fa, fb) ==
    (IsPositive(fa) /\ IsPositive(fb)) \/ (IsNegative(fa) /\ IsNegative(fb))

\* the bracket <<a, fa, b, fb>> after the step to m, where f is fm
Bisect[br \in Int \X Int \X Int \X Int, m \in Int, fm \in Int] ==
    IF (fm > 0) = (br[2] > 0) /\ fm # 0
    THEN <<m, fm, br[3], br[4]>>
    ELSE <<br[1], br[2], m, fm>>

\* how brentq ended
Ended(kind, msg, x, iterations, funcalls) ==
    [kind |-> kind, msg |-> msg, x |-> x, iterations |-> iterations,
     funcalls |-> funcalls]

\* the iterations from the i-th on (i counts those done), on the bracket br
BrentqLoop[P \in Params, br \in Int \X Int \X Int \X Int, i \in Nat, calls \in Nat, maxit \in Nat] ==
    IF i >= maxit
    THEN Ended("RuntimeError", "Failed to converge", 0, i, calls)
    ELSE IF br[2] = 0 \/ br[4] = 0 \/ br[3] - br[1] <= xtol
    THEN Ended("root", "", IF Abs(br[2]) <= Abs(br[4]) THEN br[1] ELSE br[3],
               i + 1, calls)
    ELSE BrentqLoop[P,
                    Bisect[br, (br[1] + br[3]) \div 2,
                           f((br[1] + br[3]) \div 2, P).v],
                    i + 1, calls + 1, maxit]

\* brentq once f is known at both ends
BrentqEnds[P \in Params, xa \in Int, fa \in Double, xb \in Int, fb \in Double, maxit \in Nat] ==
    IF IsNaN(fa)
    THEN Ended("ValueError", "The function value is NaN", 0, 0, 1)
    ELSE IF IsNaN(fb)
    THEN Ended("ValueError", "The function value is NaN", 0, 0, 2)
    ELSE IF IsZero(fa)
    THEN Ended("root", "", xa, 0, 2)
    ELSE IF IsZero(fb)
    THEN Ended("root", "", xb, 0, 2)
    ELSE IF SameSign(fa, fb)
    THEN Ended("ValueError", "f(a) and f(b) must have different signs", 0, 0, 2)
    ELSE BrentqLoop[P, <<xa, fa.v, xb, fb.v>>, 0, 2, maxit]

\* brentq that answers the upper end when there is no sign change
brentqClamped(P, xa, xb, maxit) ==
    IF SameSign(f(xa, P), f(xb, P))
    THEN Ended("root", "", xb, 0, 2)
    ELSE BrentqEnds[P, xa, f(xa, P), xb, f(xb, P), maxit]

brentq(P, xa, xb, maxit) == BrentqEnds[P, xa, f(xa, P), xb, f(xb, P), maxit]

(***************************************************************************)
(* calculate_sn_required.  The value is what the call hands to its caller: *)
(* ret (the dict) or raised (the exception that leaves the function).      *)
(***************************************************************************)
\* np.linspace(0.5, SN_required * 1.5, 10) with the residual at each point
IterationDetails(P, SN_required) ==
    LET start == 5 * 10^5
        stop == (3 * SN_required) \div 2
        SN_test(i) == start + ((i * (stop - start)) \div 9)
    IN  [i \in 1..10 |-> [SN_test |-> SN_test(i - 1),
                          residual |-> f(SN_test(i - 1), P)]]

\* Round3 with round(x, 2)
Round3TwoDecimals(x) == 10000 * RoundHalfEven[x, 10000]

\* round(x, 3) of a value in micro
Round3(x) == 1000 * RoundHalfEven[x, 1000]

\* the try block after brentq has ended as r, and the except clause
AfterBrentq(P, r) ==
    IF r.kind = "root"
    THEN [raised |-> "none", out |-> r, fcalls |-> r.funcalls + 10,
          ret |-> [SN_required |-> Some(Round3(r.x)),
                   converged |-> TRUE,
                   iterations |-> IterationDetails(P, r.x)]]
    ELSE IF r.kind = "ValueError"
    THEN [raised |-> "none", out |-> r, fcalls |-> r.funcalls,
          ret |-> [SN_required |-> None,
                   converged |-> FALSE,
                   error |-> r.msg,
                   iterations |-> <<>>]]
    ELSE [raised |-> r.kind, out |-> r, fcalls |-> r.funcalls, ret |-> None]

calculate_sn_required_capped(maxit, W18_, Zr_, So_, delta_psi_, Mr_) ==
    CHOOSE res \in
        { AfterBrentq([W18 |-> W18_, Zr |-> Zr_, So |-> So_,
                       delta_psi |-> delta_psi_, Mr |-> Mr_], r) :
          r \in { brentq([W18 |-> W18_, Zr |-> Zr_, So |-> So_,
                          delta_psi |-> delta_psi_, Mr |-> Mr_],
                         BracketLo, BracketHi, maxit) } } : TRUE

calculate_sn_required(W18_, Zr_, So_, delta_psi_, Mr_) ==
    calculate_sn_required_capped(maxiter, W18_, Zr_, So_, delta_psi_, Mr_)

(***************************************************************************)
(* calculate_sn_provided.  With a in 10^-2, thickness_cm in 10^-1 and m in *)
(* 10^-3, a * (thickness_cm / 2.54) * m is a*t*m / 2540000 exactly; the    *)
(* sum is kept as that numerator and divided once, at the rounding.        *)
(***************************************************************************)
\* EffectiveDrainage without the surface-layer rule
EffectiveDrainageConfigured(i, material, drainage_coeff) == drainage_coeff

\* EffectiveDrainage with the surface-layer rule for any material
EffectiveDrainageFirstLayer(i, material, drainage_coeff) ==
    IF i = 0 THEN 1000 ELSE drainage_coeff

\* m_i: the drainage coefficient that enters the sum; i counts from 0
EffectiveDrainage(i, material, drainage_coeff) ==
    IF i = 0 /\ material = AC THEN 1000 ELSE drainage_coeff

\* ContributionNum without the factor m_i
ContributionNumNoDrainage(i, layer) ==
    MATERIALS[layer.material].layer_coeff * layer.thickness_cm * 1000

\* sn_contribution * 2540000
ContributionNum(i, layer) ==
    MATERIALS[layer.material].layer_coeff * layer.thickness_cm
        * EffectiveDrainage(i, layer.material, layer.drainage_coeff)

\* LayerDetail reporting the configured drainage_coeff, not m_i
LayerDetailConfigured(i, layer) ==
    [layer_no |-> i + 1,
     material |-> layer.material,
     thickness_cm |-> layer.thickness_cm,
     thickness_inch |-> RoundHalfEven[layer.thickness_cm * 10000, 254],
     layer_coeff |-> MATERIALS[layer.material].layer_coeff,
     drainage_coeff |-> layer.drainage_coeff,
     sn_contribution |-> RoundHalfEven[ContributionNum(i, layer), 254]]

\* the entry appended to layer_details for layer i (from 0)
LayerDetail(i, layer) ==
    [layer_no |-> i + 1,
     material |-> layer.material,
     thickness_cm |-> layer.thickness_cm,
     thickness_inch |-> RoundHalfEven[layer.thickness_cm * 10000, 254],
     layer_coeff |-> MATERIALS[layer.material].layer_coeff,
     drainage_coeff |-> EffectiveDrainage(i, layer.material, layer.drainage_coeff),
     sn_contribution |-> RoundHalfEven[ContributionNum(i, layer), 254]]

\* LayerAfter with m_i stored back into the caller's dict
LayerAfterStoresEffective(i, layer) ==
    [layer EXCEPT !.drainage_coeff = EffectiveDrainage(i, layer.material, @)]

\* the caller's dict for layer i after the loop body: the body binds the
\* locals material, thickness_cm, drainage_coeff and m_i and stores
\* nothing into layer
LayerAfter(i, layer) == layer

\* the caller's list after calculate_sn_provided(ls): the loop appends to
\* its own layer_details only
LayersAfter(ls) == [n \in 1..Len(ls) |-> LayerAfter(n - 1, ls[n])]

\* total_sn * 2540000 after the first n layers
RECURSIVE TotalNum(_, _)
TotalNum(ls, n) ==
    IF n = 0 THEN 0 ELSE TotalNum(ls, n - 1) + ContributionNum(n - 1, ls[n])

\* RoundTotal with round(total_sn, 1)
RoundTotalOneDecimal(num) == 100000 * RoundHalfEven[num, 254000]

\* round(total_sn, 3) in micro
RoundTotal(num) == 1000 * RoundHalfEven[num, 2540]

calculate_sn_provided(ls) ==
    [SN_provided |-> RoundTotal(TotalNum(ls, Len(ls))),
     layer_details |-> [n \in 1..Len(ls) |-> LayerDetail(n - 1, ls[n])]]

(***************************************************************************)
(* check_design.  sn_required is None or a value, sn_provided a value,     *)
(* both in micro.  The message is kept as its three formatted parts.       *)
(***************************************************************************)
\* Passed with > for >=
PassedStrict(sn_required, sn_provided) == sn_provided > sn_required

\* check_design with the margin taken as sn_required - sn_provided
check_designMarginReversed(sn_required, sn_provided) ==
    IF sn_required = None
    THEN [status |-> "ERROR",
          message |-> <<"Cannot calculate SN_required">>,
          safety_margin |-> None]
    ELSE LET passed == sn_provided >= Val(sn_required)
         IN  [status |-> IF passed THEN "PASS" ELSE "FAIL",
              passed |-> passed,
              safety_margin |-> Some(Round3(Val(sn_required) - sn_provided)),
              message |-> <<Round3(sn_provided),
                            IF passed THEN ">=" ELSE "<",
                            Round3(Val(sn_required))>>]

\* check_design without the branch for None, None counting as 0
check_designNoneAsZero(sn_required, sn_provided) ==
    LET req == IF sn_required = None THEN 0 ELSE Val(sn_required)
        passed == sn_provided >= req
    IN  [status |-> IF passed THEN "PASS" ELSE "FAIL",
         passed |-> passed,
         safety_margin |-> Some(Round3(sn_provided - req)),
         message |-> <<Round3(sn_provided), IF passed THEN ">=" ELSE "<",
                       Round3(req)>>]

Passed(sn_required, sn_provided) == sn_provided >= sn_required

check_design(sn_required, sn_provided) ==
    IF sn_required = None
    THEN [status |-> "ERROR",
          message |-> <<"Cannot calculate SN_required">>,
          safety_margin |-> None]
    ELSE LET safety_margin == sn_provided - Val(sn_required)
             passed == Passed(Val(sn_required), sn_provided)
         IN  [status |-> IF passed THEN "PASS" ELSE "FAIL",
              passed |-> passed,
              safety_margin |-> Some(Round3(safety_margin)),
              message |-> <<Round3(sn_provided),
                            IF passed THEN ">=" ELSE "<",
                            Round3(Val(sn_required))>>]

(***************************************************************************)
(* The inputs of a run.                                                    *)
(***************************************************************************)
MaxLayers == 3

Layer(material, thickness_cm, drainage_coeff) ==
    [material |-> material, thickness_cm |-> thickness_cm,
     drainage_coeff |-> drainage_coeff]

\* the layers a list is drawn from
LayerChoices ==
    { Layer(AC, 100, 1000), Layer(AC, 100, 800),
      Layer(CTB, 200, 1000), Layer(CTB, 200, 800),
      Layer(GSB, 150, 1000), Layer(GSB, 0, 1000),
      Layer(CAB, -50, 1025), Layer(CAB, 200, 0) }

LayerLists == UNION { [1..n -> LayerChoices] : n \in 0..MaxLayers }

\* the layers the form of main shows before any edit
DefaultLayers ==
    << Layer(AC, 100, 1000), Layer(CAB, 200, 1025), Layer(CTB, 150, 1025) >>

\* the layer lists entered in the form of main
FormLayerLists ==
    { DefaultLayers,
      << Layer(AC, 140, 1000), Layer(CAB, 410, 1200) >>,
      << Layer(AC, 150, 1000), Layer(CAB, 410, 1200) >>,
      << Layer(AC, 100, 1000), Layer(CTB, 200, 1000), Layer(GSB, 150, 1000) >>,
      << Layer(CTB, 200, 800), Layer(GSB, 150, 1000) >>,
      << Layer(AC, 20, 1000), Layer(CTB, 460, 1150) >> }

W18Values == { -1000, 0, 1000, 5000000 }
ZrValues == { RELIABILITY_ZR[500], RELIABILITY_ZR[900], RELIABILITY_ZR[999] }
SoValues == { 45 }
DeltaPsiValues == { -5, 0, 5, 17 }
MrValues == { -1000, 0, 1000, 5000, 50000 }

\* the values the form of main shows before any edit
DefaultInputs ==
    [W18 |-> 5000000, Zr |-> RELIABILITY_ZR[900], So |-> 45,
     delta_psi |-> 42 - 25, Mr |-> 5000]

SolverInputs ==
    [W18 : W18Values, Zr : ZrValues, So : SoValues,
     delta_psi : DeltaPsiValues, Mr : MrValues]

Start(at, in, ls) ==
    /\ pc = at
    /\ W18 = in.W18
    /\ Zr = in.Zr
    /\ So = in.So
    /\ delta_psi = in.delta_psi
    /\ Mr = in.Mr
    /\ layers = ls
    /\ sn_req_result = None
    /\ sn_prov_result = None
    /\ design_check = None
    /\ exc = "none"
    /\ brentq_out = None
    /\ fcalls = 0
    /\ solves = 0
    /\ form = None
    /\ arg_sn_required = None
    /\ arg_sn_provided = None
    /\ SN_point = None
    /\ residual = None
    /\ ToolsIdle

Init ==
    \/ \E in \in SolverInputs : Start("start", in, DefaultLayers)
    \/ \E ls \in FormLayerLists : Start("start", DefaultInputs, ls)

(***************************************************************************)
(* main, from the call of calculate_sn_required to the result metrics.     *)
(***************************************************************************)
\* sn_req_result = calculate_sn_required(W18, Zr, So, delta_psi, Mr)
SolveWith(maxit) ==
    /\ pc = "start"
    /\ \E r \in { calculate_sn_required_capped(maxit, W18, Zr, So, delta_psi, Mr) } :
           /\ brentq_out' = Some(r.out)
           /\ fcalls' = fcalls + r.fcalls
           /\ solves' = solves + 1
           /\ IF r.raised = "none"
              THEN /\ sn_req_result' = Some(r.ret)
                   /\ arg_sn_required' = r.ret.SN_required
                   /\ exc' = exc
                   /\ pc' = "solved"
              ELSE /\ sn_req_result' = sn_req_result
                   /\ arg_sn_required' = arg_sn_required
                   /\ exc' = r.raised
                   /\ pc' = "crashed"
    /\ UNCHANGED toolVars
    /\ UNCHANGED <<W18, Zr, So, delta_psi, Mr, layers, sn_prov_result,
                   design_check, form, arg_sn_provided, SN_point, residual>>

Solve == SolveWith(maxiter)

\* sn_prov_result = calculate_sn_provided(layers) and
\* sn_provided = sn_prov_result['SN_provided']
Provide ==
    /\ pc = "solved"
    /\ sn_prov_result' = Some(calculate_sn_provided(layers))
    /\ arg_sn_provided' = Some(calculate_sn_provided(layers).SN_provided)
    /\ layers' = LayersAfter(layers)
    /\ pc' = "provided"
    /\ UNCHANGED toolVars
    /\ UNCHANGED <<W18, Zr, So, delta_psi, Mr, sn_req_result,
                   design_check, exc, brentq_out, fcalls, solves,
                   form, arg_sn_required, SN_point, residual>>

\* design_check = check_design(sn_required, sn_provided)
Check ==
    /\ pc = "provided"
    /\ design_check' = Some(check_design(arg_sn_required, Val(arg_sn_provided)))
    /\ pc' = "checked"
    /\ UNCHANGED toolVars
    /\ UNCHANGED <<W18, Zr, So, delta_psi, Mr, layers, sn_req_result,
                   sn_prov_result, exc, brentq_out, fcalls, solves,
                   form, arg_sn_required, arg_sn_provided, SN_point, residual>>

\* the three result metrics and the status line read design_check['passed']
Display ==
    /\ pc = "checked"
    /\ IF "passed" \in DOMAIN Val(design_check)
       THEN pc' = "displayed" /\ exc' = exc
       ELSE pc' = "crashed" /\ exc' = "KeyError"
    /\ UNCHANGED toolVars
    /\ UNCHANGED <<W18, Zr, So, delta_psi, Mr, layers, sn_req_result,
                   sn_prov_result, design_check, brentq_out, fcalls, solves,
                   form, arg_sn_required, arg_sn_provided, SN_point, residual>>

Next == Solve \/ Provide \/ Check \/ Display

Spec == Init /\ [][Next]_vars

(***************************************************************************)
(* calculate_sn_provided called on its own, on any list of layers.         *)
(***************************************************************************)
InitProvided == \E ls \in LayerLists : Start("call", DefaultInputs, ls)

CallProvided ==
    /\ pc = "call"
    /\ sn_prov_result' = Some(calculate_sn_provided(layers))
    /\ layers' = LayersAfter(layers)
    /\ pc' = "returned"
    /\ UNCHANGED toolVars
    /\ UNCHANGED <<W18, Zr, So, delta_psi, Mr, sn_req_result,
                   design_check, exc, brentq_out, fcalls, solves,
                   form, arg_sn_required, arg_sn_provided, SN_point, residual>>

NextProvided == CallProvided

SpecProvided == InitProvided /\ [][NextProvided]_vars

(***************************************************************************)
(* The input form of main.  An entry holds what the widgets return: W18,   *)
(* reliability (10^-1 percent), So (10^-2), P0 and Pt (10^-1), the way Mr  *)
(* is given, and Mr (psi) or CBR (10^-1 percent).                          *)
(***************************************************************************)
\* int(2555 * (CBR ** 0.64)) given lg = log10 of 2555 * CBR ** 0.64, >= 0
IntOfExp10[lg \in Nat] == MulDiv[Exp10[lg][1], 10^(Exp10[lg][2]), P27]

\* Mr with the CBR threshold at < 10
MrFromCBRBelowTen(CBR) ==
    IF CBR < 100
    THEN (1500 * CBR) \div 10
    ELSE IntOfExp10[Log10E8[2555] + Times[Log10E8[CBR] - E8, 64, 100]]

\* the Mr main derives from CBR
MrFromCBR(CBR) ==
    IF CBR <= 100
    THEN (1500 * CBR) \div 10
    ELSE IntOfExp10[Log10E8[2555] + Times[Log10E8[CBR] - E8, 64, 100]]

\* what the widgets accept
FormAccepts(e) ==
    /\ e.W18 \in 1000..100000000
    /\ e.reliability \in DOMAIN RELIABILITY_ZR
    /\ e.So \in 30..60
    /\ e.P0 \in 30..50
    /\ e.Pt \in 15..35
    /\ e.Mr_input_type \in {"direct", "CBR"}
    /\ e.Mr_input_type = "direct" => e.Mr \in 1000..50000
    /\ e.Mr_input_type = "CBR" => e.CBR \in 10..300

\* the entries the widgets show before any edit
DefaultEntry ==
    [W18 |-> 5000000, reliability |-> 900, So |-> 45, P0 |-> 42, Pt |-> 25,
     Mr_input_type |-> "direct", Mr |-> 5000, CBR |-> 50]

P0Values == { 30, 35, 42, 50 }
PtValues == { 15, 25, 30, 35 }
CBRSteps == 58
CBRValues == { 10 + 5 * i : i \in 0..CBRSteps }

FormEntries ==
    { [DefaultEntry EXCEPT !.P0 = p0, !.Pt = pt] :
          p0 \in P0Values, pt \in PtValues }
    \cup { [DefaultEntry EXCEPT !.Mr_input_type = "CBR", !.CBR = c] :
               c \in { v \in CBRValues : v <= 300 } }
    \cup { [DefaultEntry EXCEPT !.W18 = w, !.reliability = r, !.Mr = m] :
               w \in {1000, 5000000, 100000000}, r \in {500, 900, 999},
               m \in {1000, 5000, 50000} }
    \cup { [DefaultEntry EXCEPT !.So = so] : so \in {30, 60} }

\* the arguments main hands to calculate_sn_required for the entry e
FormInputs(e) ==
    [W18 |-> e.W18, Zr |-> RELIABILITY_ZR[e.reliability], So |-> e.So,
     delta_psi |-> e.P0 - e.Pt,
     Mr |-> IF e.Mr_input_type = "direct" THEN e.Mr ELSE MrFromCBR(e.CBR)]

InitForm ==
    \E e \in { x \in FormEntries : FormAccepts(x) },
       ls \in FormLayerLists :
        /\ e # DefaultEntry => ls = DefaultLayers
        /\ pc = "start"
        /\ form = Some(e)
        /\ W18 = FormInputs(e).W18
        /\ Zr = FormInputs(e).Zr
        /\ So = FormInputs(e).So
        /\ delta_psi = FormInputs(e).delta_psi
        /\ Mr = FormInputs(e).Mr
        /\ layers = ls
        /\ sn_req_result = None
        /\ sn_prov_result = None
        /\ design_check = None
        /\ exc = "none"
        /\ brentq_out = None
        /\ fcalls = 0
        /\ solves = 0
        /\ arg_sn_required = None
        /\ arg_sn_provided = None
        /\ SN_point = None
        /\ residual = None
        /\ ToolsIdle

SpecForm == InitForm /\ [][Next]_vars

(***************************************************************************)
(* The solve with the iteration cap of brentq lowered to IterCap, so that  *)
(* the cap is met before the bracket is as narrow as xtol.                 *)
(***************************************************************************)
IterCap == 5

SolveCapped == SolveWith(IterCap)

NextCap == SolveCapped \/ Provide \/ Check \/ Display

SpecCap == Init /\ [][NextCap]_vars

(***************************************************************************)
(* Properties of the solver.                                               *)
(***************************************************************************)
\* the arguments of the solve of this run
RunParams ==
    [W18 |-> W18, Zr |-> Zr, So |-> So, delta_psi |-> delta_psi, Mr |-> Mr]

\* the residual has the same sign at SN = 0.1 and at SN = 20.0
SameSignAtEnds ==
    LET fa == f(BracketLo, RunParams)
        fb == f(BracketHi, RunParams)
    IN  \/ fa.cls \in {"fin", "pinf"} /\ fb.cls \in {"fin", "pinf"}
           /\ (fa.cls = "fin" => fa.v > 0) /\ (fb.cls = "fin" => fb.v > 0)
        \/ fa.cls \in {"fin", "ninf"} /\ fb.cls \in {"fin", "ninf"}
           /\ (fa.cls = "fin" => fa.v < 0) /\ (fb.cls = "fin" => fb.v < 0)

\* the result of the solve is the failure result: converged False,
\* SN_required None, an error text
FailureResult ==
    /\ sn_req_result # None
    /\ Val(sn_req_result).converged = FALSE
    /\ Val(sn_req_result).SN_required = None
    /\ "error" \in DOMAIN Val(sn_req_result)
    /\ Val(sn_req_result).error # ""

\* C1: whenever the residual has the same sign at both bracket endpoints,
\* the call of calculate_sn_required ends in the failure result (converged
\* False, SN_required None, an error text) and no SN value is returned.
C1_SameSignFails ==
    (pc = "solved" /\ SameSignAtEnds) => FailureResult

\* C1 happens: valid inputs whose residual is positive at both ends, and
\* brentq has refused the bracket
C1_Witness ==
    /\ pc = "solved"
    /\ W18 > 0 /\ delta_psi > 0 /\ Mr > 0
    /\ Val(brentq_out).msg = "f(a) and f(b) must have different signs"
    /\ FailureResult

C3_InvalidInputNeverEvaluated ==
    (pc # "start" /\ (W18 <= 0 \/ delta_psi <= 0 \/ Mr <= 0))
        => (fcalls = 0 /\ solves = 0)

(***************************************************************************)
(* Properties of calculate_sn_provided.                                    *)
(***************************************************************************)
\* SN_provided of the call that has returned
Returned == Val(sn_prov_result).SN_provided

\* C4: an empty layer list, and a list with a layer whose thickness or
\* coefficient is not positive, is rejected: an error is reported and no
\* SN_provided is returned.
C4_RejectsInvalidLayers ==
    (pc = "returned"
        /\ (layers = <<>>
            \/ \E n \in 1..Len(layers) :
                   layers[n].thickness_cm <= 0 \/ layers[n].drainage_coeff <= 0))
        => (exc # "none" \/ sn_prov_result = None)

\* the contribution numerator of the first layer when its m is m
FirstLayerNum(m) ==
    MATERIALS[layers[1].material].layer_coeff * layers[1].thickness_cm * m

\* C5 as stated: for every non-empty list, whatever the material of the
\* first layer and whatever drainage_coeff it is given, the m used for
\* layer 1 in the sum and reported in its breakdown entry is 1.0.
C5_FirstLayerAlwaysOne ==
    (pc = "returned" /\ Len(layers) >= 1)
        => LET d == Val(sn_prov_result).layer_details[1]
           IN  /\ d.drainage_coeff = 1000
               /\ d.sn_contribution = RoundHalfEven[FirstLayerNum(1000), 254]

\* C5 amended: the m used for layer 1 in the sum and reported in its
\* breakdown entry is 1.0 when the material of layer 1 is Asphalt Concrete
\* (AC), whatever drainage_coeff it is given, and is the drainage_coeff it
\* is given when layer 1 has any other material.
C5_FirstLayerOneIfAC ==
    (pc = "returned" /\ Len(layers) >= 1)
        => LET d == Val(sn_prov_result).layer_details[1]
               m == IF layers[1].material = AC THEN 1000
                    ELSE layers[1].drainage_coeff
           IN  /\ d.drainage_coeff = m
               /\ d.sn_contribution = RoundHalfEven[FirstLayerNum(m), 254]
               /\ Len(layers) = 1 => Returned = 1000 * RoundHalfEven[FirstLayerNum(m), 2540]

\* C5 happens: a first layer of AC given drainage_coeff 0.8 has entered the
\* sum with m = 1.0
C5_Witness ==
    /\ pc = "returned"
    /\ layers = << Layer(AC, 100, 800) >>
    /\ Val(sn_prov_result).layer_details[1].drainage_coeff = 1000
    /\ Returned = 1732000

\* the permutations of 1..n
Orderings(n) ==
    { p \in [1..n -> 1..n] : \A i, j \in 1..n : p[i] = p[j] => i = j }

Permuted(ls, p) == [n \in 1..Len(ls) |-> ls[p[n]]]

\* C6 as stated: for every layer list and every permutation of it,
\* SN_provided of the permuted list equals SN_provided of the list.
C6_PermutationInvariant ==
    pc = "returned"
        => \A p \in Orderings(Len(layers)) :
               calculate_sn_provided(Permuted(layers, p)).SN_provided = Returned

\* C6 amended: for every layer list in which each Asphalt Concrete (AC)
\* layer has drainage_coeff 1.0, and every permutation of it, the sum of
\* a_i * D_i * m_i is the same number, and SN_provided of the permuted list
\* is within one unit of the third decimal of SN_provided of the list.
C6_PermutationInvariantPlainAC ==
    (pc = "returned"
        /\ \A n \in 1..Len(layers) :
               layers[n].material = AC => layers[n].drainage_coeff = 1000)
        => \A p \in Orderings(Len(layers)) :
               /\ TotalNum(Permuted(layers, p), Len(layers))
                      = TotalNum(layers, Len(layers))
               /\ Abs(calculate_sn_provided(Permuted(layers, p)).SN_provided
                          - Returned) <= 1000

\* C6 happens: a list with AC on top and its reversal, CTB with m = 0.8 on
\* top, have the same SN_provided
C6_Witness ==
    /\ pc = "returned"
    /\ layers = << Layer(AC, 100, 1000), Layer(CTB, 200, 800) >>
    /\ calculate_sn_provided(<< Layer(CTB, 200, 800), Layer(AC, 100, 1000) >>).SN_provided
           = Returned
    /\ Returned = 3181000

\* the list with every thickness_cm doubled
Doubled(ls) ==
    [n \in 1..Len(ls) |-> [ls[n] EXCEPT !.thickness_cm = 2 * ls[n].thickness_cm]]

\* C7 as stated: doubling the thickness_cm of every layer yields an
\* SN_provided that is exactly twice the SN_provided returned for the list.
C7_DoublingExact ==
    pc = "returned"
        => calculate_sn_provided(Doubled(layers)).SN_provided = 2 * Returned

\* C7 amended: doubling the thickness_cm of every layer yields an
\* SN_provided that differs from twice the SN_provided returned for the
\* list by at most one unit of the third decimal.
C7_DoublingWithinRounding ==
    pc = "returned"
        => Abs(calculate_sn_provided(Doubled(layers)).SN_provided - 2 * Returned)
               <= 1000

\* C7 happens: AC 10 cm gives 1.732, AC 20 cm gives 3.465
C7_Witness ==
    /\ pc = "returned"
    /\ layers = << Layer(AC, 100, 1000) >>
    /\ Returned = 1732000
    /\ calculate_sn_provided(Doubled(layers)).SN_provided = 3465000

\* a_i * thickness_cm * m_i of layer n, times 100000, m_i as C5 amended has it
TermNum(ls, n) ==
    MATERIALS[ls[n].material].layer_coeff * ls[n].thickness_cm
        * (IF n = 1 /\ ls[n].material = AC THEN 1000 ELSE ls[n].drainage_coeff)

\* the sum of the terms from layer n to the last
RECURSIVE SumFrom(_, _)
SumFrom(ls, n) == IF n > Len(ls) THEN 0 ELSE TermNum(ls, n) + SumFrom(ls, n + 1)

ExampleStack ==
    << Layer(AC, 100, 1000), Layer(CTB, 200, 1000), Layer(GSB, 150, 1000) >>

C9_PassedIffMarginNonNegative ==
    (design_check # None /\ Val(sn_req_result).SN_required # None)
        => LET req == Val(Val(sn_req_result).SN_required)
               prov == Val(sn_prov_result).SN_provided
           IN  /\ Val(design_check).passed = (prov - req >= 0)
               /\ prov = req => Val(design_check).passed

\* C9 happens: SN_provided = SN_required = 5.137 and the design passes
C9_Witness ==
    /\ design_check # None
    /\ Val(sn_req_result).SN_required = Some(5137000)
    /\ Val(sn_prov_result).SN_provided = 5137000
    /\ Val(design_check).passed
    /\ Val(design_check).status = "PASS"

\* C10: a failed solve carries SN_required None and no iterations;
\* check_design on it gives status ERROR, no safety margin and no pass
\* verdict; the solve is not repeated.
C10_FailureIsTerminal ==
    /\ (sn_req_result # None /\ ~Val(sn_req_result).converged)
           => /\ Val(sn_req_result).SN_required = None
              /\ Val(sn_req_result).iterations = <<>>
              /\ design_check # None
                     => /\ Val(design_check).status = "ERROR"
                        /\ Val(design_check).safety_margin = None
                        /\ "passed" \notin DOMAIN Val(design_check)
    /\ solves <= 1

\* C10 happens: the solve has failed and check_design has answered ERROR
C10_Witness ==
    /\ design_check # None
    /\ ~Val(sn_req_result).converged
    /\ Val(design_check).status = "ERROR"
    /\ solves = 1

(***************************************************************************)
(* Properties of main and of its input form.                               *)
(***************************************************************************)
\* the example of C11: W18 = 1000, reliability 50 %, Mr = 50000 psi
C11_Example ==
    /\ form # None
    /\ Val(form).W18 = 1000 /\ Val(form).reliability = 500
    /\ Val(form).Mr_input_type = "direct" /\ Val(form).Mr = 50000
    /\ Val(form).P0 = 42 /\ Val(form).Pt = 25

\* C11: when the solve fails for inputs the form accepts, main presents the
\* failure and completes the run; no exception leaves main.
C11_FailurePresentedWithoutException ==
    (form # None /\ FormAccepts(Val(form))
        /\ sn_req_result # None /\ ~Val(sn_req_result).converged)
        => (exc = "none" /\ pc # "crashed")

\* C11, the example alone
C11_ExampleCompletes == C11_Example => (exc = "none" /\ pc # "crashed")

\* C18: for every P0 and Pt the form accepts, P0 > Pt, and the delta_psi
\* handed to calculate_sn_required is strictly positive.
C18_ServiceabilityOrdered ==
    (form # None /\ FormAccepts(Val(form)))
        => (Val(form).P0 > Val(form).Pt /\ delta_psi > 0)

\* 2555 * CBR ** 0.64 in 10^-4 psi, CBR > 10 (in 10^-1 percent)
Correlation4(CBR) ==
    IntOfExp10[Log10E8[2555] + Times[Log10E8[CBR] - E8, 64, 100] + 4 * E8]

\* the run takes Mr from CBR
FromCBR == form # None /\ Val(form).Mr_input_type = "CBR"

\* C19 as stated: with Mr derived from CBR, Mr equals 1500 * CBR for
\* CBR <= 10 and equals 2555 * CBR ** 0.64 for CBR > 10 (here: to within
\* 0.005 psi, which is beyond the error of the arithmetic above).
C19_MrEqualsCorrelation ==
    FromCBR
        => LET CBR == Val(form).CBR
           IN  IF CBR <= 100 THEN 10 * Mr = 1500 * CBR
               ELSE Abs(10^4 * Mr - Correlation4(CBR)) <= 50

\* C19 amended: with Mr derived from CBR, Mr is 1500 * CBR for CBR <= 10
\* and 2555 * CBR ** 0.64 for CBR > 10, truncated to a whole number of psi.
C19_MrIsTruncatedCorrelation ==
    FromCBR
        => LET CBR == Val(form).CBR
           IN  IF CBR <= 100 THEN Mr = (1500 * CBR) \div 10
               ELSE /\ 10^4 * Mr <= Correlation4(CBR)
                    /\ Correlation4(CBR) < 10^4 * (Mr + 1)

\* C19 happens: CBR = 30 has given Mr = 22529 (2555 * 30 ** 0.64 is
\* 22529.34...) and the run has gone through with it
C19_Witness ==
    /\ FromCBR
    /\ Val(form).CBR = 300
    /\ Mr = 22529
    /\ pc = "displayed"

(***************************************************************************)
(* Properties of the value the solver returns.                             *)
(***************************************************************************)
\* the solve of this run has succeeded
Solved == sn_req_result # None /\ Val(sn_req_result).converged

\* the SN_required of the result, the root brentq returned
ReturnedSN == Val(Val(sn_req_result).SN_required)
Root == Val(brentq_out).x

C13_ResidualAtReturnedSmall ==
    (pc = "solved" /\ Solved)
        => Abs(f(ReturnedSN, RunParams).v) < 1000

\* C13 for the root before rounding: the residual at the value brentq
\* returned is below 1e-5 in absolute value
C13_ResidualAtRootSmall ==
    (pc = "solved" /\ Solved)
        => Abs(f(Root, RunParams).v) < 1000

\* C16: on success the result of calculate_sn_required still holds the
\* unrounded root next to the value rounded to 3 decimals.
C16_FullPrecisionRetained ==
    (pc = "solved" /\ Solved)
        => \/ Val(sn_req_result).SN_required = Some(Root)
           \/ \E i \in DOMAIN Val(sn_req_result).iterations :
                  Val(sn_req_result).iterations[i].SN_test = Root

\* the scenario of C17: the default inputs and the example stack
Scenario ==
    /\ RunParams = DefaultInputs
    /\ layers = ExampleStack
    /\ design_check # None

\* C17 as stated: the solver returns about 4.5 (within 0.05), the residual
\* at 4.5 is about 0 (within 0.01), and check_design gives passed = false
\* with a margin of about -0.31 (within 0.01).
C17_ScenarioAsStated ==
    Scenario
        => /\ Abs(ReturnedSN - 4500000) <= 50000
           /\ Abs(f(4500000, RunParams).v) <= 1000000
           /\ Val(design_check).passed = FALSE
           /\ Abs(Val(Val(design_check).safety_margin) + 310000) <= 10000

\* C17 amended: the solver returns SN_required = 5.137 (the residual at
\* 5.137 is below 0.001, the residual at 4.5 is about -0.395), and with
\* the stack (SN_provided = 4.193) check_design gives passed = false with
\* margin -0.944.
C17_ScenarioComputed ==
    Scenario
        => /\ ReturnedSN = 5137000
           /\ Abs(f(5137000, RunParams).v) < 100000
           /\ Abs(f(4500000, RunParams).v + 39500000) < 100000
           /\ Val(arg_sn_provided) = 4193000
           /\ Val(design_check).passed = FALSE
           /\ Val(design_check).safety_margin = Some(-944000)

\* C17 happens: the scenario has been run to its verdict
C17_Witness ==
    /\ Scenario
    /\ pc = "displayed"
    /\ Val(design_check).status = "FAIL"
    /\ ReturnedSN = 5137000

(***************************************************************************)
(* aashto_1993_equation called on its own, at the points of a grid over    *)
(* the bracket, for valid Zr, So, delta_psi and Mr.                        *)
(***************************************************************************)
SNPoints == 100

GridStep == (BracketHi - BracketLo) \div SNPoints
Grid == { BracketLo + i * GridStep : i \in 0..SNPoints }

EquationInputs ==
    [W18 : {5000000}, Zr : {RELIABILITY_ZR[500], RELIABILITY_ZR[900]},
     So : {45}, delta_psi : {1, 2, 5, 17, 27, 35}, Mr : {1000, 5000, 50000}]

InitEquation ==
    \E in \in EquationInputs, sn \in Grid :
        /\ pc = "call"
        /\ SN_point = Some(sn)
        /\ W18 = in.W18
        /\ Zr = in.Zr
        /\ So = in.So
        /\ delta_psi = in.delta_psi
        /\ Mr = in.Mr
        /\ layers = <<>>
        /\ sn_req_result = None
        /\ sn_prov_result = None
        /\ design_check = None
        /\ exc = "none"
        /\ brentq_out = None
        /\ fcalls = 0
        /\ solves = 0
        /\ form = None
        /\ arg_sn_required = None
        /\ arg_sn_provided = None
        /\ residual = None
        /\ ToolsIdle

CallEquation ==
    /\ pc = "call"
    /\ residual' = Some(aashto_1993_equation(Val(SN_point), W18, Zr, So,
                                             delta_psi, Mr))
    /\ fcalls' = fcalls + 1
    /\ pc' = "returned"
    /\ UNCHANGED toolVars
    /\ UNCHANGED <<W18, Zr, So, delta_psi, Mr, layers, sn_req_result,
                   sn_prov_result, design_check, exc, brentq_out, solves,
                   form, arg_sn_required, arg_sn_provided, SN_point>>

NextEquation == CallEquation

SpecEquation == InitEquation /\ [][NextEquation]_vars

\* the residual at the grid point after SN_point is above the one returned
BelowNext ==
    Val(SN_point) < BracketHi
        => Val(residual).v
               < aashto_1993_equation(Val(SN_point) + GridStep, W18, Zr, So,
                                      delta_psi, Mr).v

\* C14 as stated: for valid Zr, So, delta_psi > 0 and Mr > 0 the residual
\* is strictly increasing in SN over [0.1, 20.0], also for delta_psi much
\* smaller than 2.7 (checked from each grid point to the next, which gives
\* every pair of grid points).
C14_StrictlyIncreasing ==
    (pc = "returned" /\ delta_psi > 0 /\ Mr > 0) => BelowNext

\* C14 amended: the same for delta_psi >= 0.2.
C14_StrictlyIncreasingFromPoint2 ==
    (pc = "returned" /\ delta_psi >= 2 /\ Mr > 0) => BelowNext

\* C14 happens: delta_psi = 0.2, where the serviceability term is most
\* negative, at SN about 3.48, and the residual one step on is larger
C14_Witness ==
    /\ pc = "returned"
    /\ delta_psi = 2
    /\ Val(SN_point) = BracketLo + 17 * GridStep
    /\ BelowNext

(***************************************************************************)
(* check_design called on its own, on values around 5.137 that are and are *)
(* not multiples of 0.001, and on None.                                    *)
(***************************************************************************)
CheckValues ==
    { 5137000 + d : d \in { -1000000, -2000, -1000, -600, -500, -400, -1, 0,
                            1, 400, 500, 600, 1000, 2000 } }

InitCheck ==
    \E req \in { Some(v) : v \in CheckValues } \cup { None },
       prov \in CheckValues :
        /\ pc = "call"
        /\ arg_sn_required = req
        /\ arg_sn_provided = Some(prov)
        /\ W18 = DefaultInputs.W18
        /\ Zr = DefaultInputs.Zr
        /\ So = DefaultInputs.So
        /\ delta_psi = DefaultInputs.delta_psi
        /\ Mr = DefaultInputs.Mr
        /\ layers = <<>>
        /\ sn_req_result = None
        /\ sn_prov_result = None
        /\ design_check = None
        /\ exc = "none"
        /\ brentq_out = None
        /\ fcalls = 0
        /\ solves = 0
        /\ form = None
        /\ SN_point = None
        /\ residual = None
        /\ ToolsIdle

CallCheck ==
    /\ pc = "call"
    /\ design_check' = Some(check_design(arg_sn_required, Val(arg_sn_provided)))
    /\ pc' = "returned"
    /\ UNCHANGED toolVars
    /\ UNCHANGED <<W18, Zr, So, delta_psi, Mr, layers, sn_req_result,
                   sn_prov_result, exc, brentq_out, fcalls, solves,
                   form, arg_sn_required, arg_sn_provided, SN_point, residual>>

NextCheck == CallCheck

SpecCheck == InitCheck /\ [][NextCheck]_vars

\* check_design has returned for a numeric sn_required
CheckedNumeric == pc = "returned" /\ arg_sn_required # None

\* the margin check_design reported
Margin == Val(Val(design_check).safety_margin)

\* C20 as stated: safety_margin is SN_provided - SN_required rounded to 3
\* decimals, and for every numeric pair passed is true exactly when the
\* reported safety_margin is >= 0.
C20_MarginAgreesWithVerdict ==
    CheckedNumeric
        => /\ Margin = 1000 * RoundHalfEven[Val(arg_sn_provided)
                                                - Val(arg_sn_required), 1000]
           /\ Val(design_check).passed = (Margin >= 0)

\* C20 amended: safety_margin is SN_provided - SN_required rounded to 3
\* decimals, and for every pair of values that are themselves rounded to 3
\* decimals (what main passes) the margin is their difference and passed
\* is true exactly when the reported safety_margin is >= 0.
C20_MarginAgreesForRoundedPairs ==
    CheckedNumeric
        => /\ Margin = 1000 * RoundHalfEven[Val(arg_sn_provided)
                                                - Val(arg_sn_required), 1000]
           /\ (Val(arg_sn_provided) % 1000 = 0 /\ Val(arg_sn_required) % 1000 = 0)
                  => /\ Margin = Val(arg_sn_provided) - Val(arg_sn_required)
                     /\ Val(design_check).passed = (Margin >= 0)

\* C20 happens: SN_provided = 5.136 against SN_required = 5.137 fails with
\* a margin of -0.001
C20_Witness ==
    /\ CheckedNumeric
    /\ arg_sn_required = Some(5137000)
    /\ arg_sn_provided = Some(5136000)
    /\ Val(design_check).passed = FALSE
    /\ Margin = -1000

(***************************************************************************)
(* The breakdown returned by calculate_sn_provided.                        *)
(***************************************************************************)
\* calculate_sn_provided has returned
ProvidedReturned == pc = "returned" /\ sn_prov_result # None

\* the layer_details of the returned dict
Details == Val(sn_prov_result).layer_details

\* the sum over the first n entries of the reported a_i * D_i * m_i,
\* times 2540000
RECURSIVE ReportedNum(_, _)
ReportedNum(d, n) ==
    IF n = 0 THEN 0
    ELSE ReportedNum(d, n - 1)
            + d[n].layer_coeff * d[n].thickness_cm * d[n].drainage_coeff

\* C21: the breakdown has one entry per input layer, in input order, with
\* layer_no = 1..n; each sn_contribution is the reported layer_coeff x
\* (thickness_cm / 2.54) x the reported drainage_coeff rounded to 4
\* decimals; and the reported drainage_coeff is the m used in the sum, so
\* SN_provided is the rounded sum of the reported products.
C21_BreakdownMatchesSum ==
    ProvidedReturned
        => /\ Len(Details) = Len(layers)
           /\ \A n \in 1..Len(layers) :
                /\ Details[n].layer_no = n
                /\ Details[n].material = layers[n].material
                /\ Details[n].thickness_cm = layers[n].thickness_cm
                /\ Details[n].layer_coeff = MATERIALS[layers[n].material].layer_coeff
                /\ Details[n].sn_contribution
                     = RoundHalfEven[Details[n].layer_coeff
                                        * Details[n].thickness_cm
                                        * Details[n].drainage_coeff, 254]
           /\ Val(sn_prov_result).SN_provided
                = 1000 * RoundHalfEven[ReportedNum(Details, Len(Details)), 2540]

\* C21 happens: AC 10 cm configured with m = 0.8 over CTB 20 cm with
\* m = 0.8 is reported with m = 1.0 and 0.8, contributions 1.7323 and
\* 1.4488
C21_Witness ==
    /\ ProvidedReturned
    /\ layers = << Layer(AC, 100, 800), Layer(CTB, 200, 800) >>
    /\ Details[1].layer_no = 1
    /\ Details[1].drainage_coeff = 1000
    /\ Details[1].sn_contribution = 17323
    /\ Details[2].layer_no = 2
    /\ Details[2].drainage_coeff = 800
    /\ Details[2].sn_contribution = 14488

(***************************************************************************)
(* What the calls leave alone.  MATERIALS and RELIABILITY_ZR are only read *)
(* (lines 276, 770), so they are definitions here and cannot change.       *)
(***************************************************************************)
\* C22: calculate_sn_provided leaves the caller's layer list unchanged:
\* every layer's material, thickness_cm and drainage_coeff, the first
\* layer's configured drainage_coeff included, is after the call what it
\* was before.
C22_LayersUnchanged == [][layers' = layers]_vars

\* C22 happens: the call has returned for a list whose first layer is AC
\* configured with m = 0.8, reported with m = 1.0, and the list still says
\* 0.8
C22_Witness ==
    /\ ProvidedReturned
    /\ Len(layers) >= 1
    /\ layers[1] = Layer(AC, 100, 800)
    /\ Details[1].drainage_coeff = 1000

(***************************************************************************)
(* The verdict against the values before rounding.                         *)
(***************************************************************************)
\* the unrounded sum S of the stack, in micro, rounded down
UnroundedProvided == Times[TotalNum(layers, Len(layers)), 100, 254]

\* C23: display rounding does not change the verdict: for every converged
\* root SN* and every stack with unrounded sum S, the passed that
\* check_design computes from the rounded SN_required and SN_provided
\* equals S >= SN*.
C23_VerdictUnchangedByRounding ==
    (pc \in {"checked", "displayed"} /\ Solved)
        => Val(design_check).passed = (UnroundedProvided >= Root)

(***************************************************************************)
(* The nomograph tools (Germini-K-AASHTO.py, and the same steps in         *)
(* Claude-K-AASHTO.py lines 263-309).  Coordinates are pixels; every       *)
(* slider runs over 0..width or 0..height of the uploaded image.           *)
(***************************************************************************)
\* report-flexible-pavment.py not running
DesignIdle ==
    /\ W18 = DefaultInputs.W18
    /\ Zr = DefaultInputs.Zr
    /\ So = DefaultInputs.So
    /\ delta_psi = DefaultInputs.delta_psi
    /\ Mr = DefaultInputs.Mr
    /\ layers = <<>>
    /\ sn_req_result = None
    /\ sn_prov_result = None
    /\ design_check = None
    /\ brentq_out = None
    /\ fcalls = 0
    /\ solves = 0
    /\ form = None
    /\ arg_sn_required = None
    /\ arg_sn_provided = None
    /\ SN_point = None
    /\ residual = None

\* the size of the uploaded image
ImageWidth == 4
ImageHeight == 4

\* int(n / d) for d # 0: Python's int() drops the fraction, toward zero
TruncDiv(n, d) ==
    IF (n >= 0) = (d > 0) THEN Abs(n) \div Abs(d) ELSE -(Abs(n) \div Abs(d))

\* int(green_x1 + (target_y - green_y1) / slope_green) with
\* slope_green = (green_y2 - green_y1) / (green_x2 - green_x1), for a line
\* that is neither vertical nor horizontal.  The quotient is taken exactly;
\* the doubles give the same integer for all coordinates up to 6.
ConstrainedX(x1, y1, x2, y2, target_y) ==
    TruncDiv(x1 * (y2 - y1) + (target_y - y1) * (x2 - x1), y2 - y1)

InitNomograph ==
    \E gx1 \in 0..ImageWidth, gy1 \in 0..ImageHeight,
       gx2 \in 0..ImageWidth, gy2 \in 0..ImageHeight,
       sy \in 0..ImageHeight :
        /\ pc = "start"
        /\ exc = "none"
        /\ green_x1 = gx1 /\ green_y1 = gy1
        /\ green_x2 = gx2 /\ green_y2 = gy2
        /\ stop_y_1 = sy
        /\ constrained_x = None
        /\ FigureIdle /\ DiagramIdle /\ DesignIdle

\* one run of main with an image uploaded: the vertical line is refused
\* (st.error and return), a zero slope_green makes the division raise,
\* otherwise the dot is placed and the image shown
RunNomograph ==
    /\ pc = "start"
    /\ IF green_x2 - green_x1 = 0
       THEN /\ pc' = "rejected"
            /\ UNCHANGED <<exc, constrained_x>>
       ELSE IF green_y2 - green_y1 = 0
       THEN /\ pc' = "crashed"
            /\ exc' = "ZeroDivisionError"
            /\ UNCHANGED constrained_x
       ELSE /\ constrained_x' = Some(ConstrainedX(green_x1, green_y1,
                                                   green_x2, green_y2, stop_y_1))
            /\ pc' = "shown"
            /\ UNCHANGED exc
    /\ UNCHANGED <<green_x1, green_y1, green_x2, green_y2, stop_y_1>>
    /\ UNCHANGED <<figureVars, diagramVars, designVars>>

NextNomograph == RunNomograph

SpecNomograph == InitNomograph /\ [][NextNomograph]_vars

\* C24: for every slider setting in which the green line is not vertical,
\* a horizontal line included, constrained_x is computed and the run
\* completes without an arithmetic error.
C24_NonVerticalCompletes ==
    (pc # "start" /\ green_x1 # green_x2)
        => pc = "shown" /\ exc = "none" /\ constrained_x # None

\* min and max of two numbers
Lower(a, b) == IF a <= b THEN a ELSE b
Upper(a, b) == IF a <= b THEN b ELSE a

\* C25: for every slider setting with a non-vertical green line the dot
\* (constrained_x, stop_y_1) lies on the drawn green line between its two
\* endpoints, up to the truncation of x: stop_y_1 is between green_y1 and
\* green_y2 and constrained_x is within one pixel of the line there and
\* between green_x1 and green_x2.
C25_DotOnGreenSegment ==
    (pc # "start" /\ green_x1 # green_x2)
        => /\ constrained_x # None
           /\ Lower(green_y1, green_y2) <= stop_y_1
           /\ stop_y_1 <= Upper(green_y1, green_y2)
           /\ Lower(green_x1, green_x2) <= Val(constrained_x)
           /\ Val(constrained_x) <= Upper(green_x1, green_x2)
           /\ Abs((Val(constrained_x) - green_x1) * (green_y2 - green_y1)
                    - (stop_y_1 - green_y1) * (green_x2 - green_x1))
                < Abs(green_y2 - green_y1)

\* C25 without the horizontal line of C24: a run that placed the dot
C25_PlacedDotOnGreenSegment ==
    pc = "shown"
        => /\ Lower(green_y1, green_y2) <= stop_y_1
           /\ stop_y_1 <= Upper(green_y1, green_y2)

(***************************************************************************)
(* The Figure 3.3 tool (AASHTO-K-comp.py).  D_SB is kept in half inches    *)
(* (the slider's step), chart coordinates in 10^-3 of a chart unit, and    *)
(* k in its logarithm, in 10^-8.                                           *)
(***************************************************************************)
\* the slider of D_SB, 4.0 to 18.0 in steps of 0.5
D_SB_options == 8..36
E_SB_options ==
    { 15000, 20000, 25000, 30000, 40000, 50000, 75000, 100000,
      150000, 200000, 300000, 400000, 500000, 750000, 1000000 }
\* list(range(1000, 21000, 500))
M_R_options == { 1000 + 500 * i : i \in 0..39 }

\* the ends of the axes
E_SB_log_min == Log10E8[15000]
E_SB_log_max == Log10E8[1000000]
D_SB_min == 12
D_SB_max == 36
M_R_log_min == Log10E8[1000]
M_R_log_max == Log10E8[20000]
k_log_min == Log10E8[50]
k_log_max == Log10E8[2000]

\* (E_SB / M_R) ** (1/3) in 10^-6, from a third of the logarithm
RatioMicro[lg \in Int] == MulDiv[Exp10[lg][1], 10^(6 + Exp10[lg][2]), P27]

\* log10 of factor ** 2.32, factor = 1 + (D_SB / 38) * ratio
LogFactor232[d \in Nat, ratio \in Nat] ==
    Times[Log10E8[E6 + (d * ratio) \div 76] - 6 * E8, 232, 100]

\* log10 of calculate_k_inf(M_R, D_SB, E_SB); D_SB > 0 and E_SB > 0 for
\* every setting of the sliders
calculate_k_inf[m \in Nat, d \in Nat, e \in Nat] ==
    (Log10E8[m] - (Log10E8[194] - E8))
        + LogFactor232[d, RatioMicro[Times[Log10E8[e] - Log10E8[m], 1, 3]]]

\* max(50, min(k_inf, 2000)), in the logarithm
Clipped[lk \in Int] ==
    IF lk < k_log_min THEN k_log_min
    ELSE IF lk > k_log_max THEN k_log_max ELSE lk

\* the markers of the user path
y_E_SB(e) ==
    50000 + SMulDiv[Log10E8[e] - E_SB_log_min, 50000,
                    E_SB_log_max - E_SB_log_min]
x_D_SB(d) == (35000 * (d - D_SB_min)) \div (D_SB_max - D_SB_min)
\* 35 + t_ratio * 35
x_turning(d) == 35000 + x_D_SB(d)
\* 50 - t_ratio * 25 with t_ratio = x_D_SB / 35
y_turning(d) == 50000 - (25000 * (d - D_SB_min)) \div (D_SB_max - D_SB_min)
y_M_R(m) ==
    25000 - SMulDiv[Log10E8[m] - M_R_log_min, 25000,
                    M_R_log_max - M_R_log_min]
x_k_inf[lk \in Int] ==
    70000 + SMulDiv[Clipped[lk] - k_log_min, 30000, k_log_max - k_log_min]

InitFigure ==
    \E d \in D_SB_options, e \in E_SB_options, m \in M_R_options :
        /\ pc = "start"
        /\ exc = "none"
        /\ D_SB = d /\ E_SB = e /\ M_R = m
        /\ points_x = None /\ points_y = None
        /\ NomographIdle /\ DiagramIdle /\ DesignIdle

\* one run of the script: the five markers of the user path
RunFigure ==
    /\ pc = "start"
    /\ points_x' = << 0, x_D_SB(D_SB), x_turning(D_SB), 70000,
                      x_k_inf[calculate_k_inf[M_R, D_SB, E_SB]] >>
    /\ points_y' = << y_E_SB(E_SB), y_E_SB(E_SB), y_turning(D_SB),
                      y_M_R(M_R), y_M_R(M_R) >>
    /\ pc' = "shown"
    /\ UNCHANGED <<exc, D_SB, E_SB, M_R>>
    /\ UNCHANGED <<nomographVars, diagramVars, designVars>>

NextFigure == RunFigure

SpecFigure == InitFigure /\ [][NextFigure]_vars

\* C26: for every input the sliders allow each marker of the user path
\* lies inside its axis span: x_D_SB in [0, 35], the turning point on the
\* turning line from (35, 50) to (70, 25), y_E_SB in [50, 100], y_M_R in
\* [0, 25] and x_k_inf in [70, 100].
C26_MarkersInsideAxes ==
    pc = "shown"
        => /\ 0 <= points_x[2] /\ points_x[2] <= 35000
           /\ 35000 <= points_x[3] /\ points_x[3] <= 70000
           /\ 25000 <= points_y[3] /\ points_y[3] <= 50000
           /\ 50000 <= points_y[1] /\ points_y[1] <= 100000
           /\ 0 <= points_y[4] /\ points_y[4] <= 25000
           /\ 70000 <= points_x[5] /\ points_x[5] <= 100000

\* the part of C26 that does hold: y_E_SB and x_k_inf stay on their axes
C26_ModulusAndKInsideAxes ==
    pc = "shown"
        => /\ 50000 <= points_y[1] /\ points_y[1] <= 100000
           /\ 70000 <= points_x[5] /\ points_x[5] <= 100000

(***************************************************************************)
(* draw_pavement_structure (pavement-structure.py).  Its coordinates are   *)
(* IEEE doubles and the claim about them is one of exact equality, so the  *)
(* doubles are computed bit for bit.  A double here is a sign and a        *)
(* magnitude in units of 2^-62, the magnitude a natural number below 2^84  *)
(* held in six limbs of 14 bits, the lowest first; every result is rounded *)
(* to 53 significant bits, ties to even.  Thicknesses are at most 500 and  *)
(* their sum at most 5000, so no magnitude needs more than 73 bits.        *)
(***************************************************************************)
Limb == 2^14
Big0 == <<0, 0, 0, 0, 0, 0>>

\* the carry into limb i when the entries of s are any integers
Carry[s \in Seq(Int), i \in Nat] ==
    IF i <= 1 THEN 0 ELSE (s[i - 1] + Carry[s, i - 1]) \div Limb

\* s with the carries propagated
Norm[s \in Seq(Int)] ==
    << s[1] % Limb,
       (s[2] + Carry[s, 2]) % Limb,
       (s[3] + Carry[s, 3]) % Limb,
       (s[4] + Carry[s, 4]) % Limb,
       (s[5] + Carry[s, 5]) % Limb,
       (s[6] + Carry[s, 6]) % Limb >>

TopLimb[s \in Seq(Int)] ==
    IF s[6] # 0 THEN 6 ELSE IF s[5] # 0 THEN 5 ELSE IF s[4] # 0 THEN 4
    ELSE IF s[3] # 0 THEN 3 ELSE IF s[2] # 0 THEN 2 ELSE 1

\* the number of significant bits
BitLength[s \in Seq(Int)] ==
    IF s = Big0 THEN 0
    ELSE 14 * (TopLimb[s] - 1) + FloorLog2[s[TopLimb[s]]] + 1

\* s with its d lowest bits rounded away (1 <= d <= 27), ties to even;
\* sticky says that s is the floor of a value that is not an integer
RoundAt[s \in Seq(Int), d \in Nat, sticky \in BOOLEAN] ==
    LET lo == s[1] + Limb * s[2]
        m == 2^d
        up == \/ 2 * (lo % m) > m
              \/ 2 * (lo % m) = m /\ (sticky \/ (lo \div m) % 2 = 1)
    IN  Norm[<< lo - (lo % m) + (IF up THEN m ELSE 0), 0,
                s[3], s[4], s[5], s[6] >>]

\* round to nearest double
Round53[s \in Seq(Int), sticky \in BOOLEAN] ==
    IF BitLength[s] <= 53 THEN s ELSE RoundAt[s, BitLength[s] - 53, sticky]

MulSmall[s \in Seq(Int), t \in Nat] ==
    Norm[<< s[1] * t, s[2] * t, s[3] * t, s[4] * t, s[5] * t, s[6] * t >>]

AddMag[a \in Seq(Int), b \in Seq(Int)] ==
    Norm[<< a[1] + b[1], a[2] + b[2], a[3] + b[3],
            a[4] + b[4], a[5] + b[5], a[6] + b[6] >>]

\* a - b for a >= b
SubMag[a \in Seq(Int), b \in Seq(Int)] ==
    Norm[<< a[1] - b[1], a[2] - b[2], a[3] - b[3],
            a[4] - b[4], a[5] - b[5], a[6] - b[6] >>]

LessMag(a, b) ==
    \E i \in 1..6 : a[i] < b[i] /\ \A j \in (i + 1)..6 : a[j] = b[j]

\* a double from its sign and magnitude; zero is +0.0
Dbl(neg, mag) == [neg |-> neg /\ mag # Big0, mag |-> mag]

\* 100.0
Hundred == Dbl(FALSE, << 0, 0, 0, 0, 6400, 0 >>)

\* the remainder of 100 * 2^62 by M after the limbs 6 down to i
DivRem[M \in Nat, i \in Nat] ==
    IF i > 6 THEN 0 ELSE (DivRem[M, i + 1] * Limb + Hundred.mag[i]) % M

DivLimb[M \in Nat, i \in Nat] ==
    (DivRem[M, i + 1] * Limb + Hundred.mag[i]) \div M

\* the double 100 / M for an integer 1 <= M < 2^17
DblDiv100[M \in Nat] ==
    Dbl(FALSE,
        Round53[<< DivLimb[M, 1], DivLimb[M, 2], DivLimb[M, 3],
                   DivLimb[M, 4], DivLimb[M, 5], DivLimb[M, 6] >>,
                DivRem[M, 1] # 0])

\* The doubles of this section: a sign and a magnitude of six limbs.
Doubles == [neg : BOOLEAN, mag : Seq(Int)]

\* the double t * x for an integer 0 <= t < 2^13
DblMulInt[t \in Nat, x \in Doubles] ==
    Dbl(x.neg, Round53[MulSmall[x.mag, t], FALSE])

\* the double x - y
DblSub[x \in Doubles, y \in Doubles] ==
    IF x.neg # y.neg
    THEN Dbl(x.neg, Round53[AddMag[x.mag, y.mag], FALSE])
    ELSE IF LessMag(x.mag, y.mag)
    THEN Dbl(~x.neg, Round53[SubMag[y.mag, x.mag], FALSE])
    ELSE Dbl(x.neg, Round53[SubMag[x.mag, y.mag], FALSE])

\* x <= y
DblLeq(x, y) ==
    IF x.neg # y.neg THEN x.neg
    ELSE IF x.neg THEN ~LessMag(x.mag, y.mag)
    ELSE ~LessMag(y.mag, x.mag)

\* the layers handed to draw_pavement_structure
MaxDrawLayers == 4
DrawThicknesses == { 15, 20, 28, 50, 500 }
ChartLayer(name, thickness, color, pattern, hatch_style) ==
    [name |-> name, thickness |-> thickness, color |-> color,
     pattern |-> pattern, hatch_style |-> hatch_style]
DrawLists ==
    UNION { [1..n -> { ChartLayer("Custom", t, "#cccccc", "solid", "///") :
                         t \in DrawThicknesses }] : n \in 1..MaxDrawLayers }

\* sum(layer['thickness'] for layer in layers) over the first n layers
RECURSIVE SumThickness(_, _)
SumThickness(ls, n) ==
    IF n = 0 THEN 0 ELSE SumThickness(ls, n - 1) + ls[n].thickness

\* ScaleDivisor without the max: the stack is never scaled down
ScaleDivisorUnscaled(total) == 100

\* max(total_thickness, 100)
ScaleDivisor(total) == IF total > 100 THEN total ELSE 100

\* The lists draw_pavement_structure is handed.
ChartLayerLists ==
    Seq([thickness : Nat, name : STRING, color : STRING,
         pattern : STRING, hatch_style : STRING])

\* current_y when the loop reaches layer n (from 1), given the double
\* scale: total_thickness * scale at first, then the y_bottom of the
\* layer before
CurrentY[ls \in ChartLayerLists, scale \in Doubles, n \in Nat] ==
    IF n <= 1
    THEN DblMulInt[SumThickness(ls, Len(ls)), scale]
    ELSE DblSub[CurrentY[ls, scale, n - 1],
                DblMulInt[ls[n - 1].thickness, scale]]

\* the rectangle of layer n: its top is current_y, its height thickness
\* and its lower edge y_bottom = current_y - thickness
Rectangle(ls, scale, n) ==
    [top |-> CurrentY[ls, scale, n],
     height |-> DblMulInt[ls[n].thickness, scale],
     bottom |-> CurrentY[ls, scale, n + 1]]

\* the scale and the rectangles draw_pavement_structure(ls) adds
draw_pavement_structure(ls) ==
    [scale |-> DblDiv100[ScaleDivisor(SumThickness(ls, Len(ls)))],
     patches |-> [n \in 1..Len(ls) |->
                    Rectangle(ls, DblDiv100[ScaleDivisor(SumThickness(ls, Len(ls)))], n)]]

InitDraw ==
    \E ls \in DrawLists :
        /\ pc = "call"
        /\ exc = "none"
        /\ chart_layers = ls
        /\ rects = None
        /\ session_state = None /\ uploaded_json = None
        /\ export_data = None /\ rerun = FALSE
        /\ downloaded = None /\ event = None
        /\ NomographIdle /\ FigureIdle /\ DesignIdle

CallDraw ==
    /\ pc = "call"
    /\ rects' = Some(draw_pavement_structure(chart_layers))
    /\ pc' = "returned"
    /\ UNCHANGED <<exc, chart_layers, session_state, uploaded_json,
                   export_data, rerun, downloaded, event>>
    /\ UNCHANGED <<nomographVars, figureVars, designVars>>

NextDraw == CallDraw

SpecDraw == InitDraw /\ [][NextDraw]_vars

\* draw_pavement_structure has returned
Drawn == pc = "returned" /\ rects # None
Patches == Val(rects).patches
TotalThickness == SumThickness(chart_layers, Len(chart_layers))

\* the rectangles are chained: the first top is total_thickness * scale
\* and each next top is the bottom of the rectangle before
Chained ==
    /\ Patches[1].top = DblMulInt[TotalThickness, Val(rects).scale]
    /\ \A n \in 2..Len(Patches) : Patches[n].top = Patches[n - 1].bottom

Tolerance == Dbl(FALSE, << 0, 256, 0, 0, 0, 0 >>)

material_list ==
    << "Surface AC", "JPCP/JRCP", "CRCP", "AC base", "CTB base",
       "Lean Concrete Base", "Crushed Rock", "Aggregate subbase",
       "Embankment", "Subgrade", "Sand Embankment", "Custom" >>

MaterialNames == { material_list[n] : n \in 1..Len(material_list) }

PRESET_MATERIALS ==
    [ m \in MaterialNames |->
        CASE m = "Surface AC" -> [color |-> "#1a1a1a", pattern |-> "solid"]
          [] m = "JPCP/JRCP" -> [color |-> "#a9a9a9", pattern |-> "solid"]
          [] m = "CRCP" -> [color |-> "#a9a9a9", pattern |-> "solid"]
          [] m = "AC base" -> [color |-> "#1a1a1a", pattern |-> "solid"]
          [] m = "CTB base" -> [color |-> "#d3d3d3", pattern |-> "dots"]
          [] m = "Lean Concrete Base" ->
                [color |-> "#c0c0c0", pattern |-> "hatch"]
          [] m = "Crushed Rock" -> [color |-> "#d2b48c", pattern |-> "dots"]
          [] m = "Aggregate subbase" ->
                [color |-> "#d2a679", pattern |-> "solid"]
          [] m = "Embankment" -> [color |-> "#f5deb3", pattern |-> "solid"]
          [] m = "Subgrade" -> [color |-> "#deb887", pattern |-> "solid"]
          [] m = "Sand Embankment" ->
                [color |-> "#f4e4ba", pattern |-> "dots"]
          [] OTHER -> [color |-> "#cccccc", pattern |-> "solid"] ]

PATTERN_OPTIONS == << "solid", "dots", "hatch" >>

preset_options == << "-- custom --", "Flexible", "Rigid" >>

\* The two lists the load-example button stores under 'preset_layers'.
FlexibleExample ==
    << [name |-> "Surface AC", thickness |-> 20,
        color |-> "#1a1a1a", pattern |-> "solid"],
       [name |-> "CTB base", thickness |-> 35,
        color |-> "#d3d3d3", pattern |-> "dots"],
       [name |-> "Aggregate subbase", thickness |-> 30,
        color |-> "#d2a679", pattern |-> "solid"],
       [name |-> "Fill Material", thickness |-> 100,
        color |-> "#f5deb3", pattern |-> "solid"] >>

RigidExample ==
    << [name |-> "JPCP/JRCP", thickness |-> 28,
        color |-> "#a9a9a9", pattern |-> "solid"],
       [name |-> "Lean Concrete Base", thickness |-> 15,
        color |-> "#c0c0c0", pattern |-> "hatch"],
       [name |-> "Crushed Rock", thickness |-> 20,
        color |-> "#d2b48c", pattern |-> "dots"],
       [name |-> "Subgrade", thickness |-> 50,
        color |-> "#deb887", pattern |-> "solid"] >>

\* The session of a browser that has just opened the page: no key at all.
EmptySession ==
    [ last_uploaded_file |-> None,
      input_chart_title |-> None,
      input_num_layers |-> None,
      input_preset_choice |-> None,
      preset_layers |-> None,
      input_material |-> << >>,
      input_thickness |-> << >>,
      input_color |-> << >>,
      input_pattern |-> << >>,
      input_hatch |-> << >> ]

\* f[i] := v for a function whose domain is a set of indices from 0.
Put(fn, i, v) ==
    [ j \in (DOMAIN fn) \cup {i} |-> IF j = i THEN v ELSE fn[j] ]

\* st.session_state.get(f'..._{i}', None) on one of the five functions.
Get(fn, i) == IF i \in DOMAIN fn THEN Some(fn[i]) ELSE None

\* dict.get(field, default) of a parsed JSON object.
Field(obj, field, default) ==
    IF field \in DOMAIN obj THEN obj[field] ELSE default

(***************************************************************************)
(* A file in the uploader is [name, size, content].  The content is what   *)
(* json.load returns: [isdict |-> FALSE] for JSON that is not an object,   *)
(* else a record with isdict TRUE and the fields of the object; an entry   *)
(* of 'layers' is written the same way.  JsonSize is the number of bytes   *)
(* of json.dumps(export_data, ensure_ascii=False, indent=2): 59 bytes of   *)
(* braces, field names and line ends, 116 more for each layer, and the     *)
(* bytes of every value; Bytes is the UTF-8 length of the script's texts.  *)
(***************************************************************************)
Bytes(str) ==
    CASE str = "Surface AC" -> 41
      [] str = "JPCP/JRCP" -> 51
      [] str = "CRCP" -> 46
      [] str = "AC base" -> 48
      [] str = "CTB base" -> 25
      [] str = "Lean Concrete Base" -> 18
      [] str = "Crushed Rock" -> 36
      [] str = "Aggregate subbase" -> 63
      [] str = "Embankment" -> 46
      [] str = "Subgrade" -> 32
      [] str = "Sand Embankment" -> 54
      [] str = "Custom" -> 24
      [] str = "Fill Material" -> 31
      [] str = "Untitled" -> 76
      [] str = "solid" -> 5
      [] str = "dots" -> 4
      [] str = "hatch" -> 5
      [] OTHER -> 3

Digits(n) == IF n < 10 THEN 1 ELSE IF n < 100 THEN 2 ELSE 3

RECURSIVE LayerBytes(_, _)
LayerBytes(ls, n) ==
    IF n = 0 THEN 0
    ELSE LayerBytes(ls, n - 1) + 116 + Bytes(ls[n].name)
         + Digits(ls[n].thickness) + 7 + Bytes(ls[n].pattern)
         + Bytes(ls[n].hatch_style)

JsonSize(data) ==
    59 + Bytes(data.chart_title) + Digits(data.num_layers)
    + LayerBytes(data.layers, Len(data.layers))

\* The download button of lines 434 to 440: the file name is a constant.
ExportFile(data) ==
    [ name |-> "pavement_structure_data.json",
      size |-> JsonSize(data),
      content |->
        [ isdict |-> TRUE,
          chart_title |-> data.chart_title,
          num_layers |-> data.num_layers,
          layers |-> [ n \in 1..Len(data.layers) |->
                        [ isdict |-> TRUE,
                          name |-> data.layers[n].name,
                          thickness |-> data.layers[n].thickness,
                          color |-> data.layers[n].color,
                          pattern |-> data.layers[n].pattern,
                          hatch_style |-> data.layers[n].hatch_style ] ] ] ]

\* Line 185: f"{uploaded_json.name}_{uploaded_json.size}".
file_id(file) == << file.name, file.size >>

(***************************************************************************)
(* Lines 180 to 211.  UploadedLayers is the loop of lines 200 to 205 over  *)
(* the first n entries: an entry that is no object has no get, the         *)
(* AttributeError leaves the loop and reaches the except of line 210 with  *)
(* the keys of the entries before it already written.                      *)
(***************************************************************************)
StoreLayer(ss, i, layer_data) ==
    [ ss EXCEPT
        !.input_material = Put(@, i, Field(layer_data, "name", "Custom")),
        !.input_thickness = Put(@, i, Field(layer_data, "thickness", 20)),
        !.input_color = Put(@, i, Field(layer_data, "color", "#cccccc")),
        !.input_pattern = Put(@, i, Field(layer_data, "pattern", "solid")),
        !.input_hatch = Put(@, i, Field(layer_data, "hatch_style", "///")) ]

RECURSIVE UploadedLayers(_, _, _)
UploadedLayers(ss, entries, n) ==
    IF n = 0 THEN [ss |-> ss, raised |-> FALSE]
    ELSE CHOOSE after \in
           { IF before.raised THEN before
             ELSE IF ~entries[n].isdict
                  THEN [ss |-> before.ss, raised |-> TRUE]
                  ELSE [ss |-> StoreLayer(before.ss, n - 1, entries[n]),
                        raised |-> FALSE] :
             before \in {UploadedLayers(ss, entries, n - 1)} } : TRUE

\* Line 186, the test that the file in the uploader has not been applied.
IsNewFile(ss, file) == ss.last_uploaded_file # Some(file_id(file))

\* Lines 187 to 198 when loaded_data is an object.
StoreHeader(ss, file) ==
    [ ss EXCEPT
        !.last_uploaded_file = Some(file_id(file)),
        !.input_chart_title =
            Some(Field(file.content, "chart_title", "Untitled")),
        !.input_num_layers =
            Some(IF "layers" \in DOMAIN file.content
                 THEN Len(file.content.layers)
                 ELSE Field(file.content, "num_layers", 4)) ]

\* The whole block: the session it leaves, whether it ended in st.rerun()
\* (line 208) and whether it showed the error of line 211.
UploadBlock(ss, upload) ==
    IF upload = None \/ ~IsNewFile(ss, Val(upload))
    THEN [ss |-> ss, rerun |-> FALSE, error |-> FALSE]
    ELSE IF ~Val(upload).content.isdict
    THEN [ss |-> [ss EXCEPT
                    !.last_uploaded_file = Some(file_id(Val(upload)))],
          rerun |-> FALSE, error |-> TRUE]
    ELSE IF "layers" \notin DOMAIN Val(upload).content
    THEN [ss |-> StoreHeader(ss, Val(upload)),
          rerun |-> TRUE, error |-> FALSE]
    ELSE CHOOSE res \in
           { [ss |-> done.ss, rerun |-> ~done.raised,
              error |-> done.raised] :
             done \in {UploadedLayers(StoreHeader(ss, Val(upload)),
                                      Val(upload).content.layers,
                                      Len(Val(upload).content.layers))} } :
           TRUE

(***************************************************************************)
(* Lines 215 to 242.  A widget that has a key shows the value stored under *)
(* its key, and stores its default there when the key is absent.  The      *)
(* uploads of this model have one to four layers, so the number field of   *)
(* line 221 always finds a value between its min_value and max_value.      *)
(***************************************************************************)
Sidebar(ss) ==
    [ ss EXCEPT
        !.input_chart_title = IF @ = None THEN Some("Untitled") ELSE @,
        !.input_num_layers = IF @ = None THEN Some(4) ELSE @,
        !.input_preset_choice =
            IF @ = None THEN Some(preset_options[1]) ELSE @ ]

\* Lines 282 to 285.
preset_data(ss, layer_idx) ==
    IF ss.preset_layers # None /\ layer_idx < Len(Val(ss.preset_layers))
    THEN Some(Val(ss.preset_layers)[layer_idx + 1])
    ELSE None

\* Lines 290 to 304: the material the selectbox of layer_idx shows.
MaterialShown(ss, layer_idx) ==
    IF layer_idx \in DOMAIN ss.input_material
    THEN ss.input_material[layer_idx]
    ELSE IF /\ preset_data(ss, layer_idx) # None
            /\ Val(preset_data(ss, layer_idx)).name \in MaterialNames
         THEN Val(preset_data(ss, layer_idx)).name
         ELSE material_list[1]

\* Lines 310 to 323.
ThicknessShown(ss, layer_idx) ==
    IF layer_idx \in DOMAIN ss.input_thickness
    THEN ss.input_thickness[layer_idx]
    ELSE IF preset_data(ss, layer_idx) # None
         THEN Val(preset_data(ss, layer_idx)).thickness
         ELSE 20

\* Lines 326 to 334.
ColorShown(ss, layer_idx) ==
    IF layer_idx \in DOMAIN ss.input_color
    THEN ss.input_color[layer_idx]
    ELSE PRESET_MATERIALS[MaterialShown(ss, layer_idx)].color

\* Lines 337 to 350.
PatternShown(ss, layer_idx) ==
    IF layer_idx \in DOMAIN ss.input_pattern
    THEN ss.input_pattern[layer_idx]
    ELSE PRESET_MATERIALS[MaterialShown(ss, layer_idx)].pattern

\* Lines 353 to 365: the selectbox exists only for the pattern "hatch".
HatchShown(ss, layer_idx) ==
    IF /\ PatternShown(ss, layer_idx) = "hatch"
       /\ layer_idx \in DOMAIN ss.input_hatch
    THEN ss.input_hatch[layer_idx]
    ELSE "///"

\* Lines 268 to 376, the list called layers.
BuiltLayers(ss) ==
    [ n \in 1..Val(ss.input_num_layers) |->
        ChartLayer(MaterialShown(ss, n - 1), ThicknessShown(ss, n - 1),
                   ColorShown(ss, n - 1), PatternShown(ss, n - 1),
                   HatchShown(ss, n - 1)) ]

(***************************************************************************)
(* The session at the end of a run that reached the last line: every layer *)
(* widget that was shown has its value under its key, and the keys of the  *)
(* layers above num_layers, whose widgets were not shown, are gone.  The   *)
(* key of a hatch selectbox that was not shown is left as it was.          *)
(***************************************************************************)
LayerWidgets(ss) ==
    [ ss EXCEPT
        !.input_material = [ i \in 0..(Val(ss.input_num_layers) - 1) |->
                                MaterialShown(ss, i) ],
        !.input_thickness = [ i \in 0..(Val(ss.input_num_layers) - 1) |->
                                ThicknessShown(ss, i) ],
        !.input_color = [ i \in 0..(Val(ss.input_num_layers) - 1) |->
                                ColorShown(ss, i) ],
        !.input_pattern = [ i \in 0..(Val(ss.input_num_layers) - 1) |->
                                PatternShown(ss, i) ],
        !.input_hatch =
            [ i \in { j \in 0..(Val(ss.input_num_layers) - 1) :
                        \/ PatternShown(ss, j) = "hatch"
                        \/ j \in DOMAIN ss.input_hatch } |->
                IF PatternShown(ss, i) = "hatch"
                THEN HatchShown(ss, i) ELSE ss.input_hatch[i] ] ]

\* Lines 425 to 430.
Export(ss) ==
    [ chart_title |-> Val(ss.input_chart_title),
      num_layers |-> Val(ss.input_num_layers),
      layers |-> BuiltLayers(ss) ]

\* Lines 244 to 260 when the button is pressed; ss is the session the
\* sidebar widgets left.
LoadExample(ss) ==
    IF Val(ss.input_preset_choice) = "Flexible"
    THEN [ss |-> [ss EXCEPT !.preset_layers = Some(FlexibleExample)],
          rerun |-> TRUE, stage |-> "button"]
    ELSE IF Val(ss.input_preset_choice) = "Rigid"
    THEN [ss |-> [ss EXCEPT !.preset_layers = Some(RigidExample)],
          rerun |-> TRUE, stage |-> "button"]
    ELSE [ss |-> LayerWidgets(ss), rerun |-> FALSE, stage |-> "end"]

\* One run of the script, from line 178 to where it stops: the st.rerun()
\* of line 208, the st.rerun() of line 252 or 260, or the last line.
Script(ss, upload, pressed) ==
    CHOOSE out \in
      { IF up.rerun
        THEN [ss |-> up.ss, rerun |-> TRUE, stage |-> "upload"]
        ELSE IF pressed
        THEN LoadExample(Sidebar(up.ss))
        ELSE [ss |-> LayerWidgets(Sidebar(up.ss)), rerun |-> FALSE,
              stage |-> "end"] :
        up \in {UploadBlock(ss, upload)} } : TRUE

(***************************************************************************)
(* What a run that ended in st.rerun() leaves of the widgets it did not    *)
(* reach depends on the Streamlit release: either every key stays, or the  *)
(* keys of the widgets not shown in the run are dropped, except those the  *)
(* script assigned in the run.  Before line 208 no widget with a key has   *)
(* been shown; before lines 252 and 260 the three sidebar widgets have.    *)
(***************************************************************************)
Below(fn, n) == [ i \in { j \in DOMAIN fn : j < n } |-> fn[i] ]

DropUnshown(out, upload) ==
    IF out.stage = "button"
    THEN [ out.ss EXCEPT
            !.input_material = << >>, !.input_thickness = << >>,
            !.input_color = << >>, !.input_pattern = << >>,
            !.input_hatch = << >> ]
    ELSE [ out.ss EXCEPT
            !.input_preset_choice = None,
            !.input_material =
                Below(@, IF "layers" \in DOMAIN Val(upload).content
                         THEN Len(Val(upload).content.layers) ELSE 0),
            !.input_thickness =
                Below(@, IF "layers" \in DOMAIN Val(upload).content
                         THEN Len(Val(upload).content.layers) ELSE 0),
            !.input_color =
                Below(@, IF "layers" \in DOMAIN Val(upload).content
                         THEN Len(Val(upload).content.layers) ELSE 0),
            !.input_pattern =
                Below(@, IF "layers" \in DOMAIN Val(upload).content
                         THEN Len(Val(upload).content.layers) ELSE 0),
            !.input_hatch =
                Below(@, IF "layers" \in DOMAIN Val(upload).content
                         THEN Len(Val(upload).content.layers) ELSE 0) ]

\* The run Streamlit starts after an interaction: ss is the session with
\* the value the user changed, upload the file in the uploader.
Run(ss, upload, pressed) ==
    \E out \in {Script(ss, upload, pressed)} :
        /\ \E drop \in IF out.rerun THEN BOOLEAN ELSE {FALSE} :
              session_state' =
                  Some(IF drop THEN DropUnshown(out, upload) ELSE out.ss)
        /\ rerun' = out.rerun
        /\ chart_layers' =
              IF out.rerun THEN chart_layers ELSE Some(BuiltLayers(out.ss))
        /\ export_data' =
              IF out.rerun THEN export_data ELSE Some(Export(out.ss))
        /\ uploaded_json' = upload

(***************************************************************************)
(* The session of the diagram page.  The user changes one field, presses a *)
(* button or puts a file in the uploader, and the script runs; MaxEvents   *)
(* bounds the number of things the user does.  The files at hand are the   *)
(* one saved with the JSON download button and two written by hand:        *)
(* OtherFile has one layer and no chart title, BrokenFile has a number     *)
(* where its second layer should be.                                       *)
(***************************************************************************)
MaxEvents == 4

OtherFile ==
    [ name |-> "other.json", size |-> 142,
      content |->
        [ isdict |-> TRUE,
          layers |-> << [ isdict |-> TRUE, name |-> "Subgrade",
                          thickness |-> 60 ] >> ] ]

BrokenFile ==
    [ name |-> "broken.json", size |-> 97,
      content |->
        [ isdict |-> TRUE, chart_title |-> "Road",
          layers |-> << [ isdict |-> TRUE, name |-> "Crushed Rock",
                          thickness |-> 25 ],
                        [ isdict |-> FALSE ] >> ] ]

FilesAtHand ==
    {OtherFile, BrokenFile}
    \cup (IF downloaded = None THEN {} ELSE {Val(downloaded)})

EditTitles == {"Untitled", "Road"}
EditNumLayers == {2, 4}
EditLayers == {0, 3}
EditMaterials == {"Surface AC", "Crushed Rock"}
EditThicknesses == {20, 25}
EditPatterns == {"solid", "hatch"}

InitDiagram ==
    /\ pc = "session" /\ exc = None
    /\ session_state = Some(LayerWidgets(Sidebar(EmptySession)))
    /\ uploaded_json = None
    /\ export_data = Some(Export(LayerWidgets(Sidebar(EmptySession))))
    /\ chart_layers = Some(BuiltLayers(LayerWidgets(Sidebar(EmptySession))))
    /\ rerun = FALSE /\ rects = None /\ downloaded = None
    /\ event = [kind |-> "open", count |-> 0, layer |-> -1, value |-> None]
    /\ NomographIdle /\ FigureIdle /\ DesignIdle

\* What every interaction of the user has in common; event keeps the field
\* the user changed and the value they gave it.
UserActs(kind, layer_idx, value) ==
    /\ pc = "session" /\ ~rerun /\ event.count < MaxEvents
    /\ event' = [kind |-> kind, count |-> event.count + 1,
                 layer |-> layer_idx, value |-> value]
    /\ UNCHANGED <<pc, exc, rects, nomographVars, figureVars, designVars>>

Upload ==
    /\ \E file \in FilesAtHand :
          /\ UserActs("upload", -1, file.name)
          /\ Run(Val(session_state), Some(file), FALSE)
    /\ UNCHANGED downloaded

RemoveUpload ==
    /\ UserActs("remove", -1, None)
    /\ uploaded_json # None
    /\ Run(Val(session_state), None, FALSE)
    /\ UNCHANGED downloaded

EditTitle ==
    /\ \E t \in EditTitles :
          /\ UserActs("title", -1, t)
          /\ Run([Val(session_state) EXCEPT !.input_chart_title = Some(t)],
              uploaded_json, FALSE)
    /\ UNCHANGED downloaded

EditNumber ==
    /\ \E n \in EditNumLayers :
          /\ UserActs("number", -1, n)
          /\ Run([Val(session_state) EXCEPT !.input_num_layers = Some(n)],
              uploaded_json, FALSE)
    /\ UNCHANGED downloaded

EditMaterial ==
    /\ \E i \in EditLayers \cap DOMAIN Val(session_state).input_material,
          m \in EditMaterials :
          /\ UserActs("material", i, m)
          /\ Run([Val(session_state) EXCEPT !.input_material[i] = m],
              uploaded_json, FALSE)
    /\ UNCHANGED downloaded

EditThickness ==
    /\ \E i \in EditLayers \cap DOMAIN Val(session_state).input_thickness,
          t \in EditThicknesses :
          /\ UserActs("thickness", i, t)
          /\ Run([Val(session_state) EXCEPT !.input_thickness[i] = t],
              uploaded_json, FALSE)
    /\ UNCHANGED downloaded

EditPattern ==
    /\ \E i \in EditLayers \cap DOMAIN Val(session_state).input_pattern,
          p \in EditPatterns :
          /\ UserActs("pattern", i, p)
          /\ Run([Val(session_state) EXCEPT !.input_pattern[i] = p],
              uploaded_json, FALSE)
    /\ UNCHANGED downloaded

SelectPreset ==
    /\ \E c \in {preset_options[n] : n \in 1..Len(preset_options)} :
          /\ UserActs("preset", -1, c)
          /\ Run([Val(session_state) EXCEPT !.input_preset_choice = Some(c)],
              uploaded_json, FALSE)
    /\ UNCHANGED downloaded

PressLoadExample ==
    /\ UserActs("button", -1, None)
    /\ Run(Val(session_state), uploaded_json, TRUE)
    /\ UNCHANGED downloaded

\* The JSON download button saves the file the last run offered; pressing
\* it runs the script like any other button.
Download ==
    /\ UserActs("download", -1, None)
    /\ downloaded' = Some(ExportFile(Val(export_data)))
    /\ Run(Val(session_state), uploaded_json, FALSE)

\* The run st.rerun() asked for starts at once, before the user can act;
\* event keeps what the user did to cause it.
Rerun ==
    /\ pc = "session" /\ rerun
    /\ Run(Val(session_state), uploaded_json, FALSE)
    /\ event' = [kind |-> "rerun", count |-> event.count,
                 layer |-> -1, value |-> event.kind]
    /\ UNCHANGED <<pc, exc, rects, downloaded>>
    /\ UNCHANGED <<nomographVars, figureVars, designVars>>

NextDiagram ==
    \/ Upload \/ RemoveUpload \/ EditTitle \/ EditNumber \/ EditMaterial
    \/ EditThickness \/ EditPattern \/ SelectPreset \/ PressLoadExample
    \/ Download \/ Rerun

SpecDiagram == InitDiagram /\ [][NextDiagram]_vars

\* The session holds what the upload block copies from content: the title,
\* the length of the layers list and, for every entry, its five values.
Copied(ss, content) ==
    /\ ss.input_chart_title = Some(Field(content, "chart_title", "Untitled"))
    /\ "layers" \in DOMAIN content =>
        /\ ss.input_num_layers = Some(Len(content.layers))
        /\ \A n \in 1..Len(content.layers) :
            /\ Get(ss.input_material, n - 1)
                 = Some(Field(content.layers[n], "name", "Custom"))
            /\ Get(ss.input_thickness, n - 1)
                 = Some(Field(content.layers[n], "thickness", 20))
            /\ Get(ss.input_color, n - 1)
                 = Some(Field(content.layers[n], "color", "#cccccc"))
            /\ Get(ss.input_pattern, n - 1)
                 = Some(Field(content.layers[n], "pattern", "solid"))
            /\ Get(ss.input_hatch, n - 1)
                 = Some(Field(content.layers[n], "hatch_style", "///"))

\* The value the user gave a field is the value the session holds after
\* the run that followed.
EditKept ==
    /\ event.kind = "title" =>
          Val(session_state).input_chart_title = Some(event.value)
    /\ event.kind = "number" =>
          Val(session_state).input_num_layers = Some(event.value)
    /\ event.kind = "material" =>
          Get(Val(session_state).input_material, event.layer)
            = Some(event.value)
    /\ event.kind = "thickness" =>
          Get(Val(session_state).input_thickness, event.layer)
            = Some(event.value)
    /\ event.kind = "pattern" =>
          Get(Val(session_state).input_pattern, event.layer)
            = Some(event.value)

WellFormed(content) ==
    /\ content.isdict
    /\ "layers" \in DOMAIN content =>
          \A n \in 1..Len(content.layers) : content.layers[n].isdict

\* C27: a file put in the uploader is applied once per distinct upload: the
\* run after the upload of a file whose name and size are not those of the
\* last applied file copies its data and ends in one rerun, the run of a
\* rerun asks for no further rerun, and the value the user gives a field
\* afterwards, with the file still in the uploader, is the value kept.
C27_UploadAppliedOnce ==
    [][ /\ ( /\ event'.kind = "upload"
             /\ IsNewFile(Val(session_state), Val(uploaded_json')) )
           => ( /\ rerun'
                /\ Copied(Val(session_state'), Val(uploaded_json').content) )
        /\ rerun => ~rerun'
        /\ EditKept' ]_vars

\* The same for the files whose content is an object with objects for its
\* layers; this part of C27 holds.
C27_WellFormedAppliedOnce ==
    [][ /\ ( /\ event'.kind = "upload"
             /\ IsNewFile(Val(session_state), Val(uploaded_json'))
             /\ WellFormed(Val(uploaded_json').content) )
           => ( /\ rerun'
                /\ Copied(Val(session_state'), Val(uploaded_json').content) )
        /\ ( /\ event'.kind = "upload"
             /\ ~IsNewFile(Val(session_state), Val(uploaded_json')) )
           => ( /\ ~rerun'
                /\ Val(session_state') = Val(session_state) )
        /\ rerun => ~rerun'
        /\ EditKept' ]_vars

\* An edit made while an applied file sits in the uploader, to a value the
\* file does not have.
C27_EditAfterUpload ==
    /\ event.kind = "thickness" /\ event.layer = 0 /\ event.value = 25
    /\ uploaded_json # None
    /\ Val(uploaded_json).name = "other.json"
    /\ Val(session_state).last_uploaded_file
         = Some(file_id(Val(uploaded_json)))

\* C28: export followed by upload is a round trip: once the file saved with
\* the JSON download button has been put in the uploader, the session holds
\* the title, the number of layers and every layer's material, thickness,
\* colour, pattern and hatch style of the exported state.
C28_UploadRestoresExport ==
    ( /\ pc = "session" /\ event.kind = "upload"
      /\ downloaded # None /\ uploaded_json = downloaded )
    => Copied(Val(session_state), Val(downloaded).content)

\* The round trip holds when the name and the size of the saved file are
\* not those of the file applied last.
C28_NewExportRestored ==
    [][ ( /\ event'.kind = "upload"
          /\ downloaded # None /\ uploaded_json' = downloaded
          /\ IsNewFile(Val(session_state), Val(downloaded)) )
        => Copied(Val(session_state'), Val(downloaded).content) ]_vars

C28_ExportUploaded ==
    /\ pc = "session" /\ event.kind = "upload" /\ rerun
    /\ downloaded # None /\ uploaded_json = downloaded
    /\ Val(session_state).input_thickness[0] = 25
    /\ Val(downloaded).content.layers[1].thickness = 25

Min(a, b) == IF a < b THEN a ELSE b

\* C29: on the run that follows a press of the load-example button with
\* the Flexible or the Rigid example selected, every layer below
\* min(number of layers, 4) has the material and the thickness of its entry
\* of the example, and every entry's name is one of PRESET_MATERIALS.
C29_ExampleShown ==
    ( /\ pc = "session" /\ event.kind = "rerun" /\ event.value = "button" )
    => /\ \A n \in 1..Min(Len(Val(chart_layers)), 4) :
            /\ Val(chart_layers)[n].name
                 = Val(Val(session_state).preset_layers)[n].name
            /\ Val(chart_layers)[n].thickness
                 = Val(Val(session_state).preset_layers)[n].thickness
       /\ \A n \in 1..Len(Val(Val(session_state).preset_layers)) :
            Val(Val(session_state).preset_layers)[n].name \in MaterialNames

\* The Rigid example, whose names are all in PRESET_MATERIALS, is not shown
\* either once the layer fields hold values.
C29_RigidExampleShown ==
    ( /\ pc = "session" /\ event.kind = "rerun" /\ event.value = "button"
      /\ Val(session_state).preset_layers = Some(RigidExample) )
    => \A n \in 1..Min(Len(Val(chart_layers)), 4) :
            /\ Val(chart_layers)[n].name = RigidExample[n].name
            /\ Val(chart_layers)[n].thickness = RigidExample[n].thickness

====
